---- MODULE Spec2Model ----
(***************************************************************************)
(* Release contract and promotion engine of gryt-ci: the local store       *)
(* (generations, generation_changes, evolutions), Generation.save_to_db    *)
(* and Generation.promote, Evolution.start_evolution with its release-     *)
(* candidate numbering, the prove command, the promotion gates, and        *)
(* CloudSync (pull, push, push_evolutions) against the remote API.         *)
(*                                                                         *)
(* Strings are sequences of tokens: a version "v1.0.0" is <<"v","1.0.0">>, *)
(* a tag "v1.0.0-rc.12" is <<"v","1.0.0","-rc.","1","2">>, so that         *)
(* formatting and parsing of the rc number are computed, not assumed.      *)
(***************************************************************************)
EXTENDS Integers, Sequences, FiniteSets, TLC

(***************************************************************************)
(* Bounds of the model.                                                    *)
(***************************************************************************)
MaxGenerations == 2
MaxEvolutions == 2
MaxClock == 1
MaxPolicies == 2
MaxHandlers == 2
MaxPromotions == 2

(***************************************************************************)
(* Input domains.                                                          *)
(***************************************************************************)
VersionInputs == {<<"v", "1.0.0">>, <<"2.0.0">>}
AbsentVersion == <<"v", "9.9.9">>
ChangeIds == {"FEAT-1", "FEAT-2"}
ChangeLists == {<<>>, <<"FEAT-1">>, <<"FEAT-1", "FEAT-2">>}
Callers == {"c1", "c2"}
Users == {"alice"}
DirectRcNums == {9}

VARIABLES
  generations,   \* table generations, in rowid order
  changes,       \* table generation_changes, in rowid order
  evolutions,    \* table evolutions, in rowid order
  nextGen,       \* source of fresh generation ids (uuid4)
  nextEvo,       \* source of fresh evolution ids (uuid4)
  clock,         \* datetime.now() as a logical clock for promotion stamps
  st,            \* per caller: the start_evolution call in progress
  pm,            \* the promote call in progress
  pv,            \* the prove command in progress
  last,          \* outcome of the most recently finished call
  remote,        \* state behind the remote API: generations and evolutions
  mem,           \* a Generation object held in memory by the caller
  bus,           \* EventBus._handlers: per event name, the subscribed handlers
  handler        \* the CloudSyncHandler of the process

vars == <<generations, changes, evolutions, nextGen, nextEvo, clock, st, pm, pv, last,
          remote, mem, bus, handler>>

(***************************************************************************)
(* String helpers.                                                         *)
(***************************************************************************)
DigitChars == <<"0", "1", "2", "3", "4", "5", "6", "7", "8", "9">>

IsDigit(c) == \E d \in 1..10 : DigitChars[d] = c

DigitVal(c) == (CHOOSE d \in 1..10 : DigitChars[d] = c) - 1

startswith(s, p) == Len(s) >= Len(p) /\ SubSeq(s, 1, Len(p)) = p

\* str(n) for a non-negative integer: its decimal digits.
RECURSIVE str(_)
str(n) == IF n < 10 THEN <<DigitChars[n + 1]>>
          ELSE str(n \div 10) \o <<DigitChars[(n % 10) + 1]>>

\* int(s) for a string of decimal digits.
RECURSIVE int(_)
int(ds) == IF Len(ds) = 0 THEN 0
           ELSE 10 * int(SubSeq(ds, 1, Len(ds) - 1)) + DigitVal(ds[Len(ds)])

\* The text matched by the regular expression (\d+) at the head of s.
RECURSIVE LeadingDigits(_)
LeadingDigits(s) == IF Len(s) = 0 \/ ~IsDigit(Head(s)) THEN <<>>
                    ELSE <<Head(s)>> \o LeadingDigits(Tail(s))

\* version if version.startswith("v") else f"v{version}"
NormalizeVersion(version) == IF startswith(version, <<"v">>) THEN version
                             ELSE <<"v">> \o version

\* f"{version}-rc.{n}"
FormatRcTag(version, n) == version \o <<"-rc.">> \o str(n)

NoTag == <<>>

(***************************************************************************)
(* Store helpers.                                                          *)
(***************************************************************************)
Range(s) == {s[i] : i \in DOMAIN s}

\* SELECT ... FROM generations WHERE version = ?
GenerationsByVersion(version) == SelectSeq(generations, LAMBDA r : r.version = version)

\* SELECT ... FROM generations WHERE generation_id = ?
GenerationsById(gid) == SelectSeq(generations, LAMBDA r : r.generation_id = gid)

\* SELECT ... FROM generation_changes WHERE generation_id = ?
ChangesOf(gid) == SelectSeq(changes, LAMBDA r : r.generation_id = gid)

\* SELECT ... FROM evolutions WHERE generation_id = ?
EvolutionsOf(gid) == SelectSeq(evolutions, LAMBDA r : r.generation_id = gid)

\* Whether the evolutions table accepts the row: the schema puts a key on
\* evolution_id only, the tag column carries no uniqueness constraint.
EvolutionInsertAccepted(rows, row) ==
  \A i \in DOMAIN rows : rows[i].evolution_id # row.evolution_id

(***************************************************************************)
(* Evolution.generate_next_rc_tag                                          *)
(***************************************************************************)
\* tag LIKE '<version>-rc.%'
TagLike(tag, version) == startswith(tag, version \o <<"-rc.">>)

\* rc_pattern.match(tag): the number captured by <version>-rc\.(\d+), or -1.
RcMatch(tag, version) ==
  LET prefix == version \o <<"-rc.">>
      rest == SubSeq(tag, Len(prefix) + 1, Len(tag))
  IN  IF startswith(tag, prefix) /\ Len(LeadingDigits(rest)) > 0
      THEN int(LeadingDigits(rest))
      ELSE -1

\* Character codes, for the store's comparison of text (digits only: the
\* tags selected by one LIKE pattern differ in their digits alone).
CharCode(c) == IF IsDigit(c) THEN 48 + DigitVal(c) ELSE 0

\* a > b in the store's text order (ORDER BY tag DESC puts a before b).
RECURSIVE TagGreater(_, _)
TagGreater(a, b) ==
  IF Len(a) = 0 THEN FALSE
  ELSE IF Len(b) = 0 THEN TRUE
  ELSE IF Head(a) = Head(b) THEN TagGreater(Tail(a), Tail(b))
  ELSE CharCode(Head(a)) > CharCode(Head(b))

\* SELECT tag FROM evolutions WHERE tag LIKE ? ORDER BY tag DESC
SelectTagsLike(rows, version) ==
  SortSeq(SelectSeq(rows, LAMBDA r : TagLike(r.tag, version)),
          LAMBDA x, y : TagGreater(x.tag, y.tag))

\* A broken numbering: trusts the text order of the query and takes the
\* first row as the highest.
HighestRcFirstRow(rows, version, highest_rc) ==
  IF Len(rows) = 0 THEN highest_rc
  ELSE LET rc_num == RcMatch(Head(rows).tag, version)
       IN  IF rc_num # -1 THEN rc_num ELSE highest_rc

\* The loop that keeps the highest parsed rc number.
RECURSIVE HighestRc(_, _, _)
HighestRc(rows, version, highest_rc) ==
  IF Len(rows) = 0 THEN highest_rc
  ELSE LET rc_num == RcMatch(Head(rows).tag, version)
       IN  HighestRc(Tail(rows), version,
                     IF rc_num # -1 /\ rc_num > highest_rc THEN rc_num ELSE highest_rc)

generate_next_rc_tag(rows, version0) ==
  LET version == NormalizeVersion(version0)
      matched == SelectTagsLike(rows, version)
  IN  IF Len(matched) = 0 THEN FormatRcTag(version, 1)
      ELSE FormatRcTag(version, HighestRc(matched, version, 0) + 1)

(***************************************************************************)
(* Call contexts and results.                                              *)
(***************************************************************************)
IdleStart == [pc |-> "idle", version |-> <<>>, change_id |-> "", generation_id |-> 0,
              tag |-> NoTag]

\* pipeline_steps=None
NoSteps == [none |-> TRUE, list |-> <<>>]

\* The arguments of a call that takes none worth recording.
NoArgs == [policies |-> <<>>, change_type |-> "", change_id |-> "", generation_id |-> 0,
           pipeline_steps |-> NoSteps]

NoResult == [op |-> "none", raised |-> "", success |-> FALSE, generation_id |-> 0,
             evolution_id |-> 0, gates |-> <<>>, gate_results |-> <<>>,
             tag |-> NoTag, tag_attempted |-> FALSE, tag_created |-> FALSE,
             events |-> <<>>, obj_status |-> "", obj_promoted_at |-> 0,
             obj_promoted_by |-> "", exit_code |-> 0,
             new |-> 0, updated |-> 0, created |-> 0, conflicts |-> <<>>,
             errors |-> <<>>, violations |-> <<>>, args |-> NoArgs, message |-> <<>>,
             called |-> <<>>]

\* A Generation object without identity (no call in progress).
NoObj == [generation_id |-> 0, version |-> <<>>, status |-> "", sync_status |-> "",
          remote_id |-> 0, promoted_at |-> 0, promoted_by |-> "", created_by |-> "",
          changes |-> <<>>]

IdlePromote == [pc |-> "idle", obj |-> NoObj, gates |-> <<>>, gate_results |-> <<>>,
                auto_tag |-> FALSE, tag_created |-> FALSE, events |-> <<>>]

IdleProve == [pc |-> "idle", evolution_id |-> 0]

\* The remote API with nothing stored behind it.
EmptyRemote == [gens |-> <<>>, evos |-> <<>>]

\* The names of the lifecycle events of EventBus.
EventNames == {"generation.created", "generation.updated", "generation.promoted",
               "evolution.created", "evolution.updated", "evolution.completed",
               "evolution.failed"}

ExecutionModes == {"local", "cloud", "hybrid"}

\* No CloudSyncHandler has been constructed.
NoHandler == [execution_mode |-> "hybrid", subscribed |-> FALSE, sync |-> FALSE]

Init ==
  /\ generations = <<>>
  /\ changes = <<>>
  /\ evolutions = <<>>
  /\ nextGen = 1
  /\ nextEvo = 1
  /\ clock = 0
  /\ st = [c \in Callers |-> IdleStart]
  /\ pm = IdlePromote
  /\ pv = IdleProve
  /\ last = NoResult
  /\ remote = EmptyRemote
  /\ mem = NoObj
  /\ bus = [e \in EventNames |-> <<>>]
  /\ handler = NoHandler

(***************************************************************************)
(* Generation.save_to_db of a new Generation object                        *)
(***************************************************************************)
\* The rows save_to_db adds to generation_changes: a change is inserted only
\* when no row with its change_id exists yet.
RECURSIVE SaveChanges(_, _, _)
SaveChanges(rows, gid, ids) ==
  IF Len(ids) = 0 THEN rows
  ELSE LET existing_change == SelectSeq(rows, LAMBDA r : r.change_id = Head(ids))
           rows2 == IF Len(existing_change) = 0
                    THEN Append(rows, [change_id |-> Head(ids), generation_id |-> gid,
                                       type |-> "add"])
                    ELSE rows
       IN  SaveChanges(rows2, gid, Tail(ids))

CreateGeneration(version0, ids, user) ==
  /\ Len(generations) < MaxGenerations
  /\ LET gid == nextGen
         row == [generation_id |-> gid, version |-> NormalizeVersion(version0),
                 status |-> "draft", sync_status |-> "not_synced", remote_id |-> 0,
                 promoted_at |-> 0, promoted_by |-> "", created_by |-> user]
     IN  /\ generations' = Append(generations, row)
         /\ changes' = SaveChanges(changes, gid, ids)
         /\ nextGen' = nextGen + 1
         /\ last' = [NoResult EXCEPT !.op = "create_generation", !.success = TRUE,
                                     !.generation_id = gid,
                                     !.events = <<"generation.created">>]
  /\ UNCHANGED <<evolutions, nextEvo, clock, st, pm, pv, remote, mem, bus, handler>>

(***************************************************************************)
(* Evolution.save_to_db of a new Evolution object                          *)
(***************************************************************************)
NewEvolutionRow(eid, gid, change_id, tag, user) ==
  [evolution_id |-> eid, generation_id |-> gid, change_id |-> change_id, tag |-> tag,
   status |-> "pending", completed_at |-> 0, pipeline_run_id |-> 0,
   sync_status |-> "not_synced", remote_id |-> 0, created_by |-> user]

\* The event name save_to_db emits for an Evolution of the given status.
EvolutionEventName(is_new, status) ==
  IF status = "pass" THEN "evolution.completed"
  ELSE IF status = "fail" THEN "evolution.failed"
  ELSE IF is_new THEN "evolution.created" ELSE "evolution.updated"

\* A broken save: looks the existing row up by tag instead of evolution_id.
EvolutionSaveToDbByTag(rows, row) ==
  LET existing == SelectSeq(rows, LAMBDA r : r.tag = row.tag)
  IN  IF Len(existing) > 0
      THEN [i \in DOMAIN rows |-> IF rows[i].tag = row.tag THEN row ELSE rows[i]]
      ELSE Append(rows, row)

\* Evolution.save_to_db: update the row with this evolution_id, else insert.
EvolutionSaveToDb(rows, row) ==
  LET existing == SelectSeq(rows, LAMBDA r : r.evolution_id = row.evolution_id)
  IN  IF Len(existing) > 0
      THEN [i \in DOMAIN rows |->
              IF rows[i].evolution_id = row.evolution_id
              THEN [row EXCEPT !.completed_at = row.completed_at] ELSE rows[i]]
      ELSE Append(rows, row)

\* An Evolution constructed by the caller with a tag of its own choosing and
\* saved directly.
SaveNewEvolution(gid, change_id, n, user) ==
  /\ Len(evolutions) < MaxEvolutions
  /\ Len(GenerationsById(gid)) > 0
  /\ \E i \in DOMAIN changes :
       changes[i].generation_id = gid /\ changes[i].change_id = change_id
  /\ LET gen == GenerationsById(gid)[1]
         row == NewEvolutionRow(nextEvo, gid, change_id, FormatRcTag(gen.version, n), user)
     IN  /\ EvolutionInsertAccepted(evolutions, row)
         /\ evolutions' = EvolutionSaveToDb(evolutions, row)
         /\ nextEvo' = nextEvo + 1
         /\ last' = [NoResult EXCEPT !.op = "save_evolution", !.success = TRUE,
                                     !.generation_id = gid, !.evolution_id = row.evolution_id,
                                     !.tag = row.tag,
                                     !.events = <<EvolutionEventName(TRUE, row.status)>>]
  /\ UNCHANGED <<generations, changes, nextGen, clock, st, pm, pv, remote, mem, bus, handler>>

(***************************************************************************)
(* Evolution.start_evolution                                               *)
(***************************************************************************)
\* A broken validation: looks the change up without its generation.
ChangeRowsAnyGeneration(rows, change_id, generation_id) ==
  SelectSeq(rows, LAMBDA r : r.change_id = change_id)

\* SELECT change_id FROM generation_changes WHERE change_id = ? AND generation_id = ?
ChangeRows(rows, change_id, generation_id) ==
  SelectSeq(rows, LAMBDA r : r.change_id = change_id /\ r.generation_id = generation_id)

\* The validation at the head of start_evolution: "" when it passes, else the
\* ValueError it raises.
StartValidation(version, change_id) ==
  LET gen_rows == GenerationsByVersion(version)
  IN  IF Len(gen_rows) = 0 THEN "ValueError: generation not found"
      ELSE IF Len(ChangeRows(changes, change_id, gen_rows[1].generation_id)) = 0
           THEN "ValueError: change not found"
           ELSE ""

InFlightStarts == Cardinality({c \in Callers : st[c].pc = "insert"})

\* First part of start_evolution: resolve the generation, validate the
\* change, scan the stored tags for the next rc number.
StartScan(p, version0, change_id) ==
  /\ st[p].pc = "idle"
  /\ Len(evolutions) + InFlightStarts < MaxEvolutions
  /\ LET version == NormalizeVersion(version0)
         error == StartValidation(version, change_id)
     IN  IF error # ""
         THEN /\ last' = [NoResult EXCEPT !.op = "start_evolution", !.raised = error]
              /\ UNCHANGED st
         ELSE /\ st' = [st EXCEPT ![p] =
                          [pc |-> "insert", version |-> version, change_id |-> change_id,
                           generation_id |-> GenerationsByVersion(version)[1].generation_id,
                           tag |-> generate_next_rc_tag(evolutions, version)]]
              /\ UNCHANGED last
  /\ UNCHANGED <<generations, changes, evolutions, nextGen, nextEvo, clock, pm, pv, remote, mem, bus, handler>>

\* git tag -a <tag> run by subprocess.run(check=True): "ok" cuts the tag,
\* "CalledProcessError" is git exiting non-zero (the tag exists, not a
\* repository), "OSError" is the git executable failing to start.
GitOutcomes == {"ok", "CalledProcessError", "OSError"}

\* create_git_tag / _create_final_tag: the value returned, given the outcome of
\* git ("raise" when the exception is not caught).
CreateTagReturn(git) ==
  IF git = "ok" THEN "True"
  ELSE IF git = "CalledProcessError" THEN "False"
  ELSE "raise"

\* Second part of start_evolution: insert the row (emitting the event), cut
\* the rc tag when auto_tag is set, return the Evolution.
StartInsert(p, user, auto_tag, git) ==
  /\ st[p].pc = "insert"
  /\ LET c == st[p]
         row == NewEvolutionRow(nextEvo, c.generation_id, c.change_id, c.tag, user)
         ret == IF auto_tag THEN CreateTagReturn(git) ELSE "False"
     IN  /\ EvolutionInsertAccepted(evolutions, row)
         /\ evolutions' = EvolutionSaveToDb(evolutions, row)
         /\ nextEvo' = nextEvo + 1
         /\ last' = [NoResult EXCEPT !.op = "start_evolution",
                        !.raised = IF ret = "raise" THEN "OSError" ELSE "",
                        !.success = (ret # "raise"),
                        !.generation_id = c.generation_id,
                        !.evolution_id = row.evolution_id,
                        !.tag = c.tag,
                        !.tag_attempted = auto_tag,
                        !.tag_created = (ret = "True"),
                        !.events = <<EvolutionEventName(TRUE, row.status)>>]
  /\ st' = [st EXCEPT ![p] = IdleStart]
  /\ UNCHANGED <<generations, changes, nextGen, clock, pm, pv, remote, mem, bus, handler>>

(***************************************************************************)
(* The prove command (cmd_evolution_prove)                                 *)
(***************************************************************************)
\* A reference given on the command line: an evolution id or a tag.
NoRef == [id |-> 0, tag |-> NoTag]

\* SELECT ... FROM evolutions WHERE evolution_id = ? OR tag = ?
EvolutionsByRef(ref) ==
  SelectSeq(evolutions, LAMBDA r : r.evolution_id = ref.id \/ r.tag = ref.tag)

\* Outcomes of one linked pipeline: "success", "error" (a step reported
\* status=error or the environment was invalid), "missing" (the script defines
\* no pipeline), "raise" (an Exception escaped the execution), "interrupt" (a
\* BaseException that is no Exception escaped it: KeyboardInterrupt, SystemExit).
PipelineOutcomes == {"success", "error", "missing", "raise", "interrupt"}
OutcomeLists == {<<o>> : o \in PipelineOutcomes} \cup
                {<<"success", o>> : o \in PipelineOutcomes} \cup
                {<<"error", "success">>}

\* A broken aggregation: the last pipeline alone decides.
OverallStatusLastOnly(outcomes, overall_status) ==
  IF Len(outcomes) = 0 THEN overall_status
  ELSE IF outcomes[Len(outcomes)] # "success" THEN "fail" ELSE overall_status

\* overall_status after the loop over the linked pipelines.
RECURSIVE OverallStatus(_, _)
OverallStatus(outcomes, overall_status) ==
  IF Len(outcomes) = 0 THEN overall_status
  ELSE OverallStatus(Tail(outcomes),
                     IF Head(outcomes) # "success" THEN "fail" ELSE overall_status)

\* Index of the first pipeline that was executed (all_pipeline_runs[0]), 0 if none.
FirstRun(outcomes) ==
  IF \E i \in DOMAIN outcomes : outcomes[i] # "missing"
  THEN CHOOSE i \in DOMAIN outcomes :
         outcomes[i] # "missing" /\ \A j \in 1..(i - 1) : outcomes[j] = "missing"
  ELSE 0

\* UPDATE evolutions SET ... WHERE evolution_id = ?
UpdateEvolution(rows, eid, status, completed_at, run_id) ==
  [i \in DOMAIN rows |->
     IF rows[i].evolution_id = eid
     THEN [rows[i] EXCEPT !.status = status, !.completed_at = completed_at,
                          !.pipeline_run_id = run_id]
     ELSE rows[i]]

\* The command up to the start of the pipelines: resolve the evolution and its
\* change, require a linked pipeline, mark the evolution running.  has_links
\* is the content of change_pipelines for the change (after the filter).
ProveBegin(ref, has_links) ==
  /\ pv.pc = "idle"
  /\ LET evolution_rows == EvolutionsByRef(ref)
     IN  IF Len(evolution_rows) = 0
         THEN /\ last' = [NoResult EXCEPT !.op = "prove", !.raised = "evolution not found",
                                          !.exit_code = 2]
              /\ UNCHANGED <<evolutions, pv>>
         ELSE LET evolution == evolution_rows[1]
              IN  IF Len(ChangeRows(changes, evolution.change_id, evolution.generation_id)) = 0
                  THEN /\ last' = [NoResult EXCEPT !.op = "prove", !.raised = "change not found",
                                                   !.exit_code = 2,
                                                   !.evolution_id = evolution.evolution_id]
                       /\ UNCHANGED <<evolutions, pv>>
                  ELSE IF ~has_links
                  THEN /\ last' = [NoResult EXCEPT !.op = "prove", !.raised = "no pipelines",
                                                   !.exit_code = 2,
                                                   !.evolution_id = evolution.evolution_id]
                       /\ UNCHANGED <<evolutions, pv>>
                  ELSE /\ evolutions' = UpdateEvolution(evolutions, evolution.evolution_id,
                                                        "running", evolution.completed_at,
                                                        evolution.pipeline_run_id)
                       /\ pv' = [pc |-> "running", evolution_id |-> evolution.evolution_id]
                       /\ UNCHANGED last
  /\ UNCHANGED <<generations, changes, nextGen, nextEvo, clock, st, pm, remote, mem, bus, handler>>

\* The rest of the command: run the linked pipelines and record the aggregate
\* status.  An Exception records fail, is re-raised by the inner handler and
\* caught by the outer one, which returns 2; any other BaseException passes
\* both handlers and leaves the row as it is.
ProveEnd(outcomes) ==
  /\ pv.pc = "running"
  /\ LET interrupted == \E i \in DOMAIN outcomes : outcomes[i] = "interrupt"
         raised == \E i \in DOMAIN outcomes : outcomes[i] = "raise"
         row == SelectSeq(evolutions, LAMBDA r : r.evolution_id = pv.evolution_id)[1]
         overall_status == OverallStatus(outcomes, "pass")
     IN  IF interrupted
         THEN /\ UNCHANGED evolutions
              /\ last' = [NoResult EXCEPT !.op = "prove", !.raised = "KeyboardInterrupt",
                                          !.evolution_id = pv.evolution_id]
         ELSE IF raised
         THEN /\ evolutions' = UpdateEvolution(evolutions, pv.evolution_id, "fail", 1,
                                               row.pipeline_run_id)
              /\ last' = [NoResult EXCEPT !.op = "prove", !.exit_code = 2,
                                          !.evolution_id = pv.evolution_id]
         ELSE /\ evolutions' = UpdateEvolution(evolutions, pv.evolution_id,
                                               overall_status, 1, FirstRun(outcomes))
              /\ last' = [NoResult EXCEPT !.op = "prove",
                                          !.success = (overall_status = "pass"),
                                          !.exit_code = IF overall_status = "pass"
                                                        THEN 0 ELSE 1,
                                          !.evolution_id = pv.evolution_id]
  /\ pv' = IdleProve
  /\ UNCHANGED <<generations, changes, nextGen, nextEvo, clock, st, pm, remote, mem, bus, handler>>

(***************************************************************************)
(* Promotion gates                                                         *)
(***************************************************************************)
GateResult(gate, passed, message, unproven, failed) ==
  [gate |-> gate, passed |-> passed, message |-> message,
   unproven_changes |-> unproven, failed_evolutions |-> failed]

\* SELECT status FROM evolutions WHERE generation_id = ? AND change_id = ?
EvolutionsOfChange(rows, gid, change_id) ==
  SelectSeq(rows, LAMBDA r : r.generation_id = gid /\ r.change_id = change_id)

\* A broken has_pass: any evolution of the change counts, whatever its status.
HasAnyEvolution(rows, gid, change_id) ==
  Len(EvolutionsOfChange(rows, gid, change_id)) > 0

\* has_pass of one change: some evolution of the change has status pass.
HasPass(rows, gid, change_id) ==
  Len(SelectSeq(EvolutionsOfChange(rows, gid, change_id), LAMBDA e : e.status = "pass")) > 0

\* The loop of AllChangesProvenGate.check collecting the unproven change ids.
RECURSIVE UnprovenChanges(_, _, _)
UnprovenChanges(rows, gid, chs) ==
  IF Len(chs) = 0 THEN <<>>
  ELSE (IF HasPass(rows, gid, Head(chs).change_id) THEN <<>> ELSE <<Head(chs).change_id>>)
       \o UnprovenChanges(rows, gid, Tail(chs))

AllChangesProvenGate(generation, rows) ==
  IF Len(generation.changes) = 0
  THEN GateResult("all_changes_proven", FALSE, "Generation has no changes", <<>>, <<>>)
  ELSE LET unproven_changes == UnprovenChanges(rows, generation.generation_id,
                                               generation.changes)
       IN  IF Len(unproven_changes) > 0
           THEN GateResult("all_changes_proven", FALSE, "Changes without PASS evolution",
                           unproven_changes, <<>>)
           ELSE GateResult("all_changes_proven", TRUE, "All changes have PASS evolutions",
                           <<>>, <<>>)

\* A broken query: the failed evolutions of every generation.
FailedEvolutionsAnyGeneration(rows, gid) ==
  SelectSeq(rows, LAMBDA e : e.status = "fail")

\* A broken query: a failed evolution no longer counts once a later evolution
\* of the same change has passed.
FailedEvolutionsUnsuperseded(rows, gid) ==
  SelectSeq(rows, LAMBDA e :
    /\ e.generation_id = gid /\ e.status = "fail"
    /\ ~\E i \in DOMAIN rows :
          /\ rows[i].generation_id = gid /\ rows[i].change_id = e.change_id
          /\ rows[i].status = "pass" /\ rows[i].evolution_id > e.evolution_id)

\* SELECT ... FROM evolutions e WHERE e.generation_id = ? AND e.status = 'fail'
FailedEvolutions(rows, gid) ==
  SelectSeq(rows, LAMBDA e : e.generation_id = gid /\ e.status = "fail")

NoFailedEvolutionsGate(generation, rows) ==
  LET failed_evolutions == FailedEvolutions(rows, generation.generation_id)
  IN  IF Len(failed_evolutions) > 0
      THEN GateResult("no_failed_evolutions", FALSE, "Failed evolutions found", <<>>,
                      [i \in DOMAIN failed_evolutions |-> failed_evolutions[i].evolution_id])
      ELSE GateResult("no_failed_evolutions", TRUE, "No failed evolutions", <<>>, <<>>)

\* A broken has_pending: an evolution that is running does not count.
HasPendingOnly(rows, gid, change_id) ==
  \E i \in DOMAIN rows :
    /\ rows[i].generation_id = gid /\ rows[i].change_id = change_id
    /\ rows[i].status = "pending"

\* has_pending of one change: some evolution of it is pending or running.
HasPending(rows, gid, change_id) ==
  Len(SelectSeq(EvolutionsOfChange(rows, gid, change_id),
                LAMBDA e : e.status \in {"pending", "running"})) > 0

\* The loop of HotfixGate.check: the result returned for the first change
\* that has no evolution, no passing evolution, or a pending one.
RECURSIVE HotfixCheckChanges(_, _, _)
HotfixCheckChanges(rows, gid, chs) ==
  IF Len(chs) = 0
  THEN GateResult("hotfix_gate", TRUE, "Hot-fix ready for promotion", <<>>, <<>>)
  ELSE LET change_id == Head(chs).change_id
       IN  IF Len(EvolutionsOfChange(rows, gid, change_id)) = 0
           THEN GateResult("hotfix_gate", FALSE, "has no evolutions", <<change_id>>, <<>>)
           ELSE IF ~HasPass(rows, gid, change_id)
           THEN GateResult("hotfix_gate", FALSE, "has no passing evolution",
                           <<change_id>>, <<>>)
           ELSE IF HasPending(rows, gid, change_id)
           THEN GateResult("hotfix_gate", FALSE, "has pending evolutions",
                           <<change_id>>, <<>>)
           ELSE HotfixCheckChanges(rows, gid, Tail(chs))

\* HotfixGate.check
HotfixGate(generation, rows) ==
  IF Len(generation.changes) = 0
  THEN GateResult("hotfix_gate", FALSE, "No changes defined", <<>>, <<>>)
  ELSE HotfixCheckChanges(rows, generation.generation_id, generation.changes)

\* The values of min_evolutions the gate is built with.
MinEvolutionsInputs == {1, 2}

\* A broken count: only the evolutions that passed are counted.
EvolutionCountPassed(rows, gid, change_id) ==
  Len(SelectSeq(rows, LAMBDA e : e.generation_id = gid /\ e.change_id = change_id
                                 /\ e.status = "pass"))

\* SELECT COUNT(*) FROM evolutions WHERE generation_id = ? AND change_id = ?
EvolutionCount(rows, gid, change_id) ==
  Len(SelectSeq(rows, LAMBDA e : e.generation_id = gid /\ e.change_id = change_id))

\* MinEvolutionsGate(min_evolutions).check; the change ids with too few
\* evolutions are reported in the order of the change list.
MinEvolutionsGate(min_evolutions, generation, rows) ==
  LET insufficient_changes ==
        SelectSeq([i \in DOMAIN generation.changes |-> generation.changes[i].change_id],
                  LAMBDA c : EvolutionCount(rows, generation.generation_id, c)
                               < min_evolutions)
  IN  IF Len(generation.changes) = 0
      THEN GateResult("min_evolutions", FALSE, "Generation has no changes", <<>>, <<>>)
      ELSE IF Len(insufficient_changes) > 0
      THEN GateResult("min_evolutions", FALSE, "Changes with insufficient evolutions",
                      insufficient_changes, <<>>)
      ELSE GateResult("min_evolutions", TRUE, "All changes have enough evolutions",
                      <<>>, <<>>)

\* A gate with a memory: it lets the generation through once a promotion of it
\* has been refused.
GateCheckLenient(gate, generation, rows) ==
  IF last.op = "promote" /\ ~last.success /\ last.generation_id = generation.generation_id
  THEN GateResult(gate, TRUE, "passed on retry", <<>>, <<>>)
  ELSE IF gate = "all_changes_proven" THEN AllChangesProvenGate(generation, rows)
  ELSE NoFailedEvolutionsGate(generation, rows)

\* gate.check(generation, data), by gate name.
GateCheck(gate, generation, rows) ==
  IF gate = "all_changes_proven" THEN AllChangesProvenGate(generation, rows)
  ELSE IF gate = "hotfix_gate" THEN HotfixGate(generation, rows)
  ELSE NoFailedEvolutionsGate(generation, rows)

get_default_gates == <<"all_changes_proven", "no_failed_evolutions">>

\* The gates argument of promote: None, or a list of gates.
NoneGates == [none |-> TRUE, list |-> <<>>]
GateInputs == {NoneGates} \cup
              {[none |-> FALSE, list |-> l] :
                 l \in {<<>>, <<"all_changes_proven">>,
                        <<"no_failed_evolutions", "all_changes_proven">>}}

(***************************************************************************)
(* Generation.from_db, Generation.save_to_db, Generation.promote           *)
(***************************************************************************)
\* Generation.from_db of a stored generation.
from_db(gid) ==
  LET row == GenerationsById(gid)[1]
      changes_rows == ChangesOf(gid)
  IN  [generation_id |-> row.generation_id, version |-> row.version, status |-> row.status,
       sync_status |-> row.sync_status, remote_id |-> row.remote_id,
       promoted_at |-> row.promoted_at, promoted_by |-> row.promoted_by,
       created_by |-> row.created_by,
       changes |-> [i \in DOMAIN changes_rows |->
                      [change_id |-> changes_rows[i].change_id,
                       type |-> changes_rows[i].type]]]

\* The row save_to_db writes for a Generation object.
GenerationRow(obj) ==
  [generation_id |-> obj.generation_id, version |-> obj.version, status |-> obj.status,
   sync_status |-> obj.sync_status, remote_id |-> obj.remote_id,
   promoted_at |-> obj.promoted_at, promoted_by |-> obj.promoted_by,
   created_by |-> obj.created_by]

\* Generation.save_to_db on the generations table: update the row with this
\* generation_id, else insert.
GenerationSaveToDb(rows, obj) ==
  IF \E i \in DOMAIN rows : rows[i].generation_id = obj.generation_id
  THEN [i \in DOMAIN rows |->
          IF rows[i].generation_id = obj.generation_id THEN GenerationRow(obj) ELSE rows[i]]
  ELSE Append(rows, GenerationRow(obj))

\* The events save_to_db emits.
GenerationSaveEvents(is_new, emit_event) ==
  IF emit_event THEN <<IF is_new THEN "generation.created" ELSE "generation.updated">>
  ELSE <<>>

\* A broken loop: stops at the first gate that fails.
RECURSIVE RunGatesShortCircuit(_, _, _)
RunGatesShortCircuit(gates, generation, rows) ==
  IF Len(gates) = 0 THEN <<>>
  ELSE LET result == GateCheck(Head(gates), generation, rows)
       IN  IF result.passed
           THEN <<result>> \o RunGatesShortCircuit(Tail(gates), generation, rows)
           ELSE <<result>>

\* The loop of promote over the gates: every gate is checked.
RECURSIVE RunGates(_, _, _)
RunGates(gates, generation, rows) ==
  IF Len(gates) = 0 THEN <<>>
  ELSE <<GateCheck(Head(gates), generation, rows)>> \o RunGates(Tail(gates), generation, rows)

\* A broken verdict: only the last gate decides.
AllPassedLastOnly(gate_results) ==
  Len(gate_results) = 0 \/ gate_results[Len(gate_results)].passed

\* all_passed after the loop.
AllPassed(gate_results) == \A i \in DOMAIN gate_results : gate_results[i].passed

\* f"{len(failed_gates)} promotion gate(s) failed"
FailedMessage(gate_results) ==
  str(Len(SelectSeq(gate_results, LAMBDA r : ~r.passed))) \o <<" promotion gate(s) failed">>

\* f"Generation {self.version} promoted successfully"
PromotedMessage(version) == <<"Generation ">> \o version \o <<" promoted successfully">>

\* promote, from the call to the gate verdict: a failed gate returns at once,
\* otherwise the object is marked promoted and stamped.
PromoteBegin(gid, gates_arg, auto_tag, user) ==
  /\ pm.pc = "idle"
  /\ Len(GenerationsById(gid)) > 0
  /\ LET self == from_db(gid)
         gates == IF gates_arg.none THEN get_default_gates ELSE gates_arg.list
         gate_results == RunGates(gates, self, evolutions)
     IN  IF ~AllPassed(gate_results)
         THEN /\ last' = [NoResult EXCEPT !.op = "promote", !.success = FALSE,
                             !.generation_id = gid, !.gates = gates,
                             !.gate_results = gate_results,
                             !.message = FailedMessage(gate_results),
                             !.obj_status = self.status,
                             !.obj_promoted_at = self.promoted_at,
                             !.obj_promoted_by = self.promoted_by]
              /\ UNCHANGED <<pm, clock>>
         ELSE /\ pm' = [pc |-> "save",
                        obj |-> [self EXCEPT !.status = "promoted",
                                             !.promoted_at = clock + 1,
                                             !.promoted_by = user],
                        gates |-> gates, gate_results |-> gate_results,
                        auto_tag |-> auto_tag, tag_created |-> FALSE, events |-> <<>>]
              /\ clock' = clock + 1
              /\ UNCHANGED last
  /\ UNCHANGED <<generations, changes, evolutions, nextGen, nextEvo, st, pv, remote, mem, bus, handler>>

\* generation.promote(data, gates, auto_tag), for a bounded number of stamps.
PromoteCall(gid, gates_arg, auto_tag, user) ==
  /\ clock < MaxClock
  /\ PromoteBegin(gid, gates_arg, auto_tag, user)

\* cmd_generation_promote(version, no_tag): an unknown version and a Generation
\* that is already promoted end the command with exit code 2; otherwise
\* promote runs with the default gates.
cmd_generation_promote(version0, no_tag, user) ==
  LET version == NormalizeVersion(version0)
      rows == GenerationsByVersion(version)
  IN  IF Len(rows) = 0 \/ rows[1].status = "promoted"
      THEN /\ pm.pc = "idle"
           /\ last' = [NoResult EXCEPT !.op = "generation_promote", !.exit_code = 2,
                         !.generation_id = IF Len(rows) = 0 THEN 0
                                           ELSE rows[1].generation_id]
           /\ UNCHANGED <<generations, changes, evolutions, nextGen, nextEvo, clock, st,
                          pm, pv, remote, mem, bus, handler>>
      ELSE /\ clock < MaxPromotions
           /\ PromoteBegin(rows[1].generation_id, NoneGates, ~no_tag, user)

\* HotfixWorkflow.promote_hotfix(generation, auto_tag): promote with the
\* hot-fix gate alone.
promote_hotfix(gid, auto_tag, user) ==
  /\ clock < MaxPromotions
  /\ PromoteBegin(gid, [none |-> FALSE, list |-> <<"hotfix_gate">>], auto_tag, user)

\* promote: self.save_to_db(data, emit_event=False)
PromoteSave ==
  /\ pm.pc = "save"
  /\ generations' = GenerationSaveToDb(generations, pm.obj)
  /\ changes' = SaveChanges(changes, pm.obj.generation_id,
                            [i \in DOMAIN pm.obj.changes |-> pm.obj.changes[i].change_id])
  /\ pm' = [pm EXCEPT !.pc = IF pm.auto_tag THEN "tag" ELSE "emit",
                      !.events = pm.events \o GenerationSaveEvents(FALSE, FALSE)]
  /\ UNCHANGED <<evolutions, nextGen, nextEvo, clock, st, pv, last, remote, mem, bus, handler>>

\* The result promote returns or the exception it lets escape.
PromoteResult(c, raised, events) ==
  [NoResult EXCEPT !.op = "promote", !.raised = raised, !.success = (raised = ""),
                   !.generation_id = c.obj.generation_id, !.gates = c.gates,
                   !.gate_results = c.gate_results,
                   !.message = IF raised = "" THEN PromotedMessage(c.obj.version) ELSE <<>>,
                   !.tag = IF c.tag_created THEN c.obj.version ELSE NoTag,
                   !.tag_attempted = c.auto_tag, !.tag_created = c.tag_created,
                   !.events = events, !.obj_status = c.obj.status,
                   !.obj_promoted_at = c.obj.promoted_at,
                   !.obj_promoted_by = c.obj.promoted_by]

\* promote: tag_created = self._create_final_tag(repo_path)
PromoteTag(git) ==
  /\ pm.pc = "tag"
  /\ LET ret == CreateTagReturn(git)
     IN  IF ret = "raise"
         THEN /\ last' = PromoteResult(pm, "OSError", pm.events)
              /\ pm' = IdlePromote
         ELSE /\ pm' = [pm EXCEPT !.pc = "emit", !.tag_created = (ret = "True")]
              /\ UNCHANGED last
  /\ UNCHANGED <<generations, changes, evolutions, nextGen, nextEvo, clock, st, pv, remote, mem, bus, handler>>

\* promote: bus.emit("generation.promoted", ...) and the return.
PromoteEmit ==
  /\ pm.pc = "emit"
  /\ last' = PromoteResult(pm, "", pm.events \o <<"generation.promoted">>)
  /\ pm' = IdlePromote
  /\ UNCHANGED <<generations, changes, evolutions, nextGen, nextEvo, clock, st, pv, remote, mem, bus, handler>>

(***************************************************************************)
(* The remote API (GrytCloudClient) and the state behind it                *)
(***************************************************************************)
MaxRemote == 1
MaxRemoteEvolutions == 1

\* Ids handed out by the remote side, and ids of objects created in another
\* local store (uuid4 values that differ from every id of this store).
RemoteGenId(n) == 100 + n
RemoteEvoId(n) == 200 + n
ForeignGenId(n) == 50 + n
ForeignEvoId(n) == 60 + n

RemoteGensById(r, id) == SelectSeq(r.gens, LAMBDA g : g.id = id)
RemoteGensByVersion(r, version) == SelectSeq(r.gens, LAMBDA g : g.version = version)

\* GET /api/v1/evolutions?generation_id=<id>
list_evolutions(r, id) == SelectSeq(r.evos, LAMBDA e : e.gen = id)

\* POST /api/v1/generations with Generation.to_dict(): the remote side refuses
\* a version it already holds ("already exists").
create_generation(r, gen) ==
  [r EXCEPT !.gens = Append(r.gens,
     [id |-> RemoteGenId(Len(r.gens) + 1), generation_id |-> gen.generation_id,
      version |-> gen.version, status |-> gen.status, promoted_at |-> gen.promoted_at,
      promoted_by |-> "", created_by |-> gen.created_by,
      changes |-> [i \in DOMAIN gen.changes |-> gen.changes[i].change_id]])]

\* An update that adds a record instead of changing the one addressed.
update_generation_appending(r, id, gen) == create_generation(r, gen)

\* PATCH /api/v1/generations/<id> with Generation.to_dict().
update_generation(r, id, gen) ==
  [r EXCEPT !.gens = [i \in DOMAIN r.gens |->
     IF r.gens[i].id = id
     THEN [r.gens[i] EXCEPT !.version = gen.version, !.status = gen.status,
                            !.promoted_at = gen.promoted_at,
                            !.changes = [k \in DOMAIN gen.changes |->
                                           gen.changes[k].change_id]]
     ELSE r.gens[i]]]

(***************************************************************************)
(* CloudSync.pull                                                          *)
(***************************************************************************)
\* The three tables of the local store as one value.
Store(g, c, e) == [generations |-> g, changes |-> c, evolutions |-> e]

\* One iteration of the loop of _pull_evolutions_for_generation: update the
\* row with the remote evolution_id, else insert it.
UpsertCloudEvolution(rows, cloud_evo, generation_id) ==
  LET evolution_data ==
        [evolution_id |-> cloud_evo.evolution_id, generation_id |-> generation_id,
         change_id |-> cloud_evo.change_id, tag |-> cloud_evo.tag,
         status |-> cloud_evo.status, completed_at |-> cloud_evo.completed_at,
         pipeline_run_id |-> 0, sync_status |-> "synced",
         remote_id |-> cloud_evo.id, created_by |-> cloud_evo.created_by]
  IN  IF \E i \in DOMAIN rows : rows[i].evolution_id = cloud_evo.evolution_id
      THEN [i \in DOMAIN rows |->
              IF rows[i].evolution_id = cloud_evo.evolution_id
              THEN evolution_data ELSE rows[i]]
      ELSE Append(rows, evolution_data)

RECURSIVE UpsertCloudEvolutions(_, _, _)
UpsertCloudEvolutions(rows, cloud_evolutions, generation_id) ==
  IF Len(cloud_evolutions) = 0 THEN rows
  ELSE UpsertCloudEvolutions(UpsertCloudEvolution(rows, Head(cloud_evolutions),
                                                  generation_id),
                             Tail(cloud_evolutions), generation_id)

\* _pull_evolutions_for_generation: a failure of list_evolutions is logged
\* and swallowed.
PullEvolutionsForGeneration(rows, r, cloud_gen, generation_id, evos_ok) ==
  IF evos_ok
  THEN UpsertCloudEvolutions(rows, list_evolutions(r, cloud_gen.id), generation_id)
  ELSE rows

\* The generation_changes rows inserted for a remote generation.
CloudChangeRows(cloud_gen, generation_id) ==
  [i \in DOMAIN cloud_gen.changes |->
     [change_id |-> cloud_gen.changes[i], generation_id |-> generation_id,
      type |-> "add"]]

\* _insert_from_cloud
InsertFromCloud(s, r, cloud_gen, evos_ok) ==
  Store(Append(s.generations,
               [generation_id |-> cloud_gen.generation_id, version |-> cloud_gen.version,
                status |-> cloud_gen.status, sync_status |-> "synced",
                remote_id |-> cloud_gen.id, promoted_at |-> cloud_gen.promoted_at,
                promoted_by |-> cloud_gen.promoted_by,
                created_by |-> cloud_gen.created_by]),
        s.changes \o CloudChangeRows(cloud_gen, cloud_gen.generation_id),
        PullEvolutionsForGeneration(s.evolutions, r, cloud_gen,
                                    cloud_gen.generation_id, evos_ok))

\* _update_from_cloud: overwrite the scalar fields, delete the evolutions and
\* the changes of the generation, insert the remote changes, then pull the
\* remote evolutions.
UpdateFromCloud(s, r, local_row, cloud_gen, evos_ok) ==
  LET generation_id == local_row.generation_id
  IN  Store([i \in DOMAIN s.generations |->
               IF s.generations[i].generation_id = generation_id
               THEN [s.generations[i] EXCEPT
                       !.version = cloud_gen.version, !.status = cloud_gen.status,
                       !.promoted_at = cloud_gen.promoted_at,
                       !.created_by = cloud_gen.created_by,
                       !.promoted_by = cloud_gen.promoted_by,
                       !.sync_status = "synced"]
               ELSE s.generations[i]],
            SelectSeq(s.changes, LAMBDA c : c.generation_id # generation_id)
              \o CloudChangeRows(cloud_gen, generation_id),
            PullEvolutionsForGeneration(
              SelectSeq(s.evolutions, LAMBDA e : e.generation_id # generation_id),
              r, cloud_gen, generation_id, evos_ok))

\* A lookup by version that finds nothing.
LocalByVersionNone(s, cloud_gen) == <<>>

\* SELECT generation_id FROM generations WHERE version = ?
LocalByVersion(s, cloud_gen) ==
  SelectSeq(s.generations, LAMBDA g : g.version = cloud_gen.version)

\* The loop of pull over the remote generations.
RECURSIVE PullLoop(_, _, _, _, _)
PullLoop(cloud_gens, s, r, result, evos_ok) ==
  IF Len(cloud_gens) = 0 THEN [store |-> s, result |-> result]
  ELSE
    LET cloud_gen == Head(cloud_gens)
        local == SelectSeq(s.generations, LAMBDA g : g.remote_id = cloud_gen.id)
        local_by_version == LocalByVersion(s, cloud_gen)
    IN  IF Len(local) = 0
        THEN IF Len(local_by_version) > 0
             THEN PullLoop(Tail(cloud_gens), s, r,
                           [result EXCEPT !.conflicts = Append(@, cloud_gen.version)],
                           evos_ok)
             ELSE PullLoop(Tail(cloud_gens), InsertFromCloud(s, r, cloud_gen, evos_ok), r,
                           [result EXCEPT !.new = @ + 1], evos_ok)
        ELSE PullLoop(Tail(cloud_gens),
                      UpdateFromCloud(s, r, local[1], cloud_gen, evos_ok), r,
                      [result EXCEPT !.updated = @ + 1], evos_ok)

\* CloudSync.pull: list_ok and evos_ok tell whether list_generations and
\* list_evolutions answer; a failure of list_generations is re-raised.
Pull(list_ok, evos_ok) ==
  /\ IF ~list_ok
     THEN /\ last' = [NoResult EXCEPT !.op = "pull", !.raised = "RuntimeError"]
          /\ UNCHANGED <<generations, changes, evolutions>>
     ELSE LET out == PullLoop(remote.gens, Store(generations, changes, evolutions), remote,
                              [new |-> 0, updated |-> 0, conflicts |-> <<>>], evos_ok)
          IN  /\ generations' = out.store.generations
              /\ changes' = out.store.changes
              /\ evolutions' = out.store.evolutions
              /\ last' = [NoResult EXCEPT !.op = "pull", !.success = TRUE,
                                          !.new = out.result.new,
                                          !.updated = out.result.updated,
                                          !.conflicts = out.result.conflicts]
  /\ UNCHANGED <<nextGen, nextEvo, clock, st, pm, pv, remote, mem, bus, handler>>

(***************************************************************************)
(* CloudSync.push and CloudSync.push_evolutions                            *)
(***************************************************************************)
\* Which calls of the remote API answer during one push.
NetOutcomes == [probe : BOOLEAN, create : BOOLEAN, update : BOOLEAN]

\* A lookup by version that never finds a record.
get_generation_by_version_none(r, version, net) == <<>>

\* self.client.get_generation_by_version(version): the record holding the
\* version when the call answers; a call that raises, or finds nothing, is
\* taken by the callers as "not found".
get_generation_by_version(r, version, net) ==
  IF net.probe THEN RemoteGensByVersion(r, version) ELSE <<>>

\* A broken update: the sync_status is written, the remote_id is not.
SetSyncStatusOnly(rows, generation_id, remote_id, sync_status) ==
  [i \in DOMAIN rows |->
     IF rows[i].generation_id = generation_id
     THEN [rows[i] EXCEPT !.sync_status = sync_status]
     ELSE rows[i]]

\* data.update("generations", {"remote_id": ..., "sync_status": ...}).
SetSync(rows, generation_id, remote_id, sync_status) ==
  [i \in DOMAIN rows |->
     IF rows[i].generation_id = generation_id
     THEN [rows[i] EXCEPT !.remote_id = remote_id, !.sync_status = sync_status]
     ELSE rows[i]]

\* _get_pending_generations
IsPending(row) == row.sync_status # "synced"

\* An error entry that loses the text of the failure.
PushErrorGeneric(version, error) == [version |-> version, error |-> "Failed to create"]

\* result["errors"].append({"version": ..., "error": ...})
PushError(version, error) == [version |-> version, error |-> error]

\* The loop of push over the Generation objects loaded before it starts.
RECURSIVE PushLoop(_, _, _, _, _)
PushLoop(gens, rows, r, result, net) ==
  IF Len(gens) = 0 THEN [generations |-> rows, remote |-> r, result |-> result]
  ELSE
    LET gen == Head(gens)
        rest == Tail(gens)
        existing_cloud_gen == get_generation_by_version(r, gen.version, net)
    IN  IF gen.remote_id # 0
        THEN IF net.update
             THEN PushLoop(rest,
                           SetSync(rows, gen.generation_id, gen.remote_id, "synced"),
                           update_generation(r, gen.remote_id, gen),
                           [result EXCEPT !.updated = @ + 1], net)
             ELSE PushLoop(rest,
                           SetSync(rows, gen.generation_id, gen.remote_id, "failed"), r,
                           [result EXCEPT !.errors =
                              Append(@, PushError(gen.version, "update failed"))], net)
        ELSE IF Len(existing_cloud_gen) > 0
        THEN LET cloud_id == existing_cloud_gen[1].id
                 linked == SetSync(rows, gen.generation_id, cloud_id, "synced")
             IN  IF net.update
                 THEN PushLoop(rest, linked, update_generation(r, cloud_id, gen),
                               [result EXCEPT !.updated = @ + 1], net)
                 ELSE PushLoop(rest, linked, r,
                               [result EXCEPT !.errors = Append(@,
                                  PushError(gen.version, "Failed to update cloud generation"))],
                               net)
        ELSE IF net.create /\ Len(RemoteGensByVersion(r, gen.version)) = 0
        THEN PushLoop(rest,
                      SetSync(rows, gen.generation_id, RemoteGenId(Len(r.gens) + 1),
                              "synced"),
                      create_generation(r, gen),
                      [result EXCEPT !.created = @ + 1], net)
        ELSE PushLoop(rest, rows, r,
                      [result EXCEPT !.errors = Append(@,
                         PushError(gen.version,
                                   IF net.create THEN "already exists"
                                   ELSE "Failed to create"))],
                      net)

\* A batch cut down to its first generation.
LoadFirst(rows) == IF Len(rows) = 0 THEN <<>> ELSE <<from_db(rows[1].generation_id)>>

\* The Generation objects built from the given rows.
LoadAll(rows) == [i \in DOMAIN rows |-> from_db(rows[i].generation_id)]

\* CloudSync.push(version, force); has_version tells whether a version is given.
Push(has_version, version, force, net) ==
  LET rows == GenerationsByVersion(version)
      gens == IF has_version THEN <<from_db(rows[1].generation_id)>>
              ELSE IF force THEN LoadAll(generations)
              ELSE LoadAll(SelectSeq(generations, IsPending))
      zero == [created |-> 0, updated |-> 0, errors |-> <<>>]
  IN  /\ IF has_version /\ Len(rows) = 0
         THEN /\ last' = [NoResult EXCEPT !.op = "push",
                            !.errors = <<PushError(version, "Generation not found locally")>>]
              /\ UNCHANGED <<generations, remote>>
         ELSE LET out == PushLoop(gens, generations, remote, zero, net)
              IN  /\ generations' = out.generations
                  /\ remote' = out.remote
                  /\ last' = [NoResult EXCEPT !.op = "push",
                                              !.created = out.result.created,
                                              !.updated = out.result.updated,
                                              !.errors = out.result.errors]
      /\ UNCHANGED <<changes, evolutions, nextGen, nextEvo, clock, st, pm, pv, mem, bus, handler>>

\* CloudSync.push_evolutions(version): every path ends before anything is
\* written. With evolutions to push, building the payload reads evo.code_name,
\* which Evolution does not define; the handler of that error reads it again.
PushEvolutions(version, net) ==
  LET rows == GenerationsByVersion(version)
      cloud_gen == get_generation_by_version(remote, version, net)
  IN  /\ last' =
           IF Len(rows) = 0
           THEN [NoResult EXCEPT !.op = "push_evolutions",
                   !.errors = <<PushError(version, "Generation not found")>>]
           ELSE IF rows[1].remote_id = 0
           THEN [NoResult EXCEPT !.op = "push_evolutions",
                   !.errors = <<PushError(version, "Generation not synced to cloud yet")>>]
           ELSE IF Len(cloud_gen) = 0
           THEN [NoResult EXCEPT !.op = "push_evolutions",
                   !.errors = <<PushError(version, "Failed to get cloud generation")>>]
           ELSE IF Len(EvolutionsOf(rows[1].generation_id)) > 0
           THEN [NoResult EXCEPT !.op = "push_evolutions", !.raised = "AttributeError"]
           ELSE [NoResult EXCEPT !.op = "push_evolutions", !.success = TRUE]
      /\ UNCHANGED <<generations, changes, evolutions, nextGen, nextEvo, clock, st, pm, pv,
                     remote, mem, bus, handler>>

(***************************************************************************)
(* A Generation object held by the caller, and the update from YAML        *)
(***************************************************************************)
\* gen = Generation.from_db(data, generation_id)
LoadGeneration(gid) ==
  /\ Len(GenerationsById(gid)) > 0
  /\ mem' = from_db(gid)
  /\ last' = [NoResult EXCEPT !.op = "from_db", !.generation_id = gid]
  /\ UNCHANGED <<generations, changes, evolutions, nextGen, nextEvo, clock, st, pm, pv,
                 remote, bus, handler>>

\* gen.save_to_db(data) on the object loaded earlier.
SaveGeneration ==
  /\ mem.generation_id # 0
  /\ generations' = GenerationSaveToDb(generations, mem)
  /\ changes' = SaveChanges(changes, mem.generation_id,
                            [i \in DOMAIN mem.changes |-> mem.changes[i].change_id])
  /\ last' = [NoResult EXCEPT !.op = "save_to_db", !.generation_id = mem.generation_id,
                !.events = GenerationSaveEvents(
                             Len(GenerationsById(mem.generation_id)) = 0, TRUE)]
  /\ UNCHANGED <<evolutions, nextGen, nextEvo, clock, st, pm, pv, remote, mem, bus, handler>>

\* cmd_generation_update: replace the changes of the generation by those of
\* its YAML file (ids) and mark it as not synced.
GenerationUpdate(version0, ids) ==
  LET version == NormalizeVersion(version0)
      existing == GenerationsByVersion(version)
      generation_id == existing[1].generation_id
  IN  /\ IF Len(existing) = 0
         THEN /\ last' = [NoResult EXCEPT !.op = "generation_update", !.exit_code = 2]
              /\ UNCHANGED <<generations, changes>>
         ELSE /\ changes' =
                   SelectSeq(changes, LAMBDA c : c.generation_id # generation_id)
                     \o [i \in DOMAIN ids |->
                           [change_id |-> ids[i], generation_id |-> generation_id,
                            type |-> "add"]]
              /\ generations' =
                   [i \in DOMAIN generations |->
                      IF generations[i].generation_id = generation_id
                      THEN [generations[i] EXCEPT !.sync_status = "not_synced"]
                      ELSE generations[i]]
              /\ last' = [NoResult EXCEPT !.op = "generation_update", !.success = TRUE,
                                          !.generation_id = generation_id]
      /\ UNCHANGED <<evolutions, nextGen, nextEvo, clock, st, pm, pv, remote, mem, bus, handler>>

(***************************************************************************)
(* Other stores writing to the same remote side                            *)
(***************************************************************************)
\* Another store pushes a generation it created.
RemoteCreate(version, ids, user) ==
  /\ Len(remote.gens) < MaxRemote
  /\ Len(RemoteGensByVersion(remote, version)) = 0
  /\ remote' = create_generation(remote,
                 [generation_id |-> ForeignGenId(Len(remote.gens) + 1),
                  version |-> version, status |-> "draft", promoted_at |-> 0,
                  created_by |-> user,
                  changes |-> [i \in DOMAIN ids |-> [change_id |-> ids[i], type |-> "add"]]])
  /\ UNCHANGED <<generations, changes, evolutions, nextGen, nextEvo, clock, st, pm, pv,
                 last, mem, bus, handler>>

\* Another store pushes an evolution of a remote generation.
RemoteEvolution(id, change_id, status, user) ==
  /\ Len(remote.evos) < MaxRemoteEvolutions
  /\ Len(RemoteGensById(remote, id)) > 0
  /\ change_id \in Range(RemoteGensById(remote, id)[1].changes)
  /\ remote' = [remote EXCEPT !.evos = Append(@,
                  [id |-> RemoteEvoId(Len(remote.evos) + 1),
                   evolution_id |-> ForeignEvoId(Len(remote.evos) + 1),
                   gen |-> id, change_id |-> change_id,
                   tag |-> FormatRcTag(RemoteGensById(remote, id)[1].version,
                                       Len(remote.evos) + 1),
                   status |-> status,
                   completed_at |-> IF status = "pending" THEN 0 ELSE 1,
                   created_by |-> user])]
  /\ UNCHANGED <<generations, changes, evolutions, nextGen, nextEvo, clock, st, pm, pv,
                 last, mem, bus, handler>>

\* The remote side holds a record of local evolution eid that this store has
\* not linked: an earlier create_evolution reached the remote side and its
\* answer was lost.
RemoteCopyEvolution(eid) ==
  /\ Len(remote.evos) < MaxRemoteEvolutions
  /\ \E i \in DOMAIN evolutions :
       /\ evolutions[i].evolution_id = eid
       /\ evolutions[i].remote_id = 0
       /\ \A k \in DOMAIN remote.evos : remote.evos[k].evolution_id # eid
       /\ LET gen == GenerationsById(evolutions[i].generation_id)[1]
          IN  /\ gen.remote_id # 0
              /\ remote' = [remote EXCEPT !.evos = Append(@,
                              [id |-> RemoteEvoId(Len(remote.evos) + 1),
                               evolution_id |-> eid, gen |-> gen.remote_id,
                               change_id |-> evolutions[i].change_id,
                               tag |-> evolutions[i].tag, status |-> "pending",
                               completed_at |-> 0,
                               created_by |-> evolutions[i].created_by])]
  /\ UNCHANGED <<generations, changes, evolutions, nextGen, nextEvo, clock, st, pm, pv,
                 last, mem, bus, handler>>

(***************************************************************************)
(* Policy and PolicySet                                                    *)
(***************************************************************************)
\* Policy(name, policy_type, enabled, config). The config keys read with
\* config.get carry their defaults when absent: change_types [],
\* required_steps [], min_evolutions 1.
require_e2e_for_add ==
  [name |-> "require_e2e_for_add", type |-> "change_type", enabled |-> TRUE,
   config |-> [change_types |-> <<"add">>,
               required_steps |-> <<"e2e_test", "integration_test">>,
               min_evolutions |-> 1]]

require_security_scan_for_fix ==
  [name |-> "require_security_scan_for_fix", type |-> "change_type", enabled |-> TRUE,
   config |-> [change_types |-> <<"fix">>, required_steps |-> <<"security_scan">>,
               min_evolutions |-> 1]]

min_evolutions_policy ==
  [name |-> "min_evolutions", type |-> "evolution_count", enabled |-> TRUE,
   config |-> [change_types |-> <<>>, required_steps |-> <<>>, min_evolutions |-> 1]]

disabled_policy ==
  [name |-> "require_build", type |-> "change_type", enabled |-> FALSE,
   config |-> [change_types |-> <<>>, required_steps |-> <<"build">>,
               min_evolutions |-> 1]]

custom_policy ==
  [name |-> "custom_rule", type |-> "custom", enabled |-> TRUE,
   config |-> [change_types |-> <<>>, required_steps |-> <<"build">>,
               min_evolutions |-> 1]]

PolicyInputs == {require_e2e_for_add, require_security_scan_for_fix,
                 min_evolutions_policy, disabled_policy, custom_policy}

\* The policy lists of at most MaxPolicies policies.
PolicySets == UNION {[1..n -> PolicyInputs] : n \in 0..MaxPolicies}

ChangeTypes == {"add", "fix"}

StepInputs == {NoSteps, [none |-> FALSE, list |-> <<"build">>],
               [none |-> FALSE, list |-> <<"build", "e2e_test">>],
               [none |-> FALSE, list |-> <<"integration_test", "e2e_test">>]}

\* validate returned without raising.
NoViolation == [policy_name |-> "", message |-> "", missing_steps |-> <<>>,
                actual_count |-> 0]

\* PolicyViolation(policy_name, message, details)
PolicyViolation(policy_name, message, missing_steps, actual_count) ==
  [policy_name |-> policy_name, message |-> message, missing_steps |-> missing_steps,
   actual_count |-> actual_count]

\* A broken applies_to: the change_types list is not looked at.
applies_to_enabled(policy, change_type) == policy.enabled

\* Policy.applies_to
applies_to(policy, change_type) ==
  IF ~policy.enabled THEN FALSE
  ELSE IF Len(policy.config.change_types) = 0 THEN TRUE
  ELSE change_type \in Range(policy.config.change_types)

\* Policy._validate_change_type: the violation raised, or NoViolation.
validate_change_type(policy, change_type, change_id, pipeline_steps) ==
  LET required_steps == policy.config.required_steps
      missing_steps == SelectSeq(required_steps,
                                 LAMBDA x : x \notin Range(pipeline_steps.list))
  IN  IF Len(required_steps) = 0 THEN NoViolation
      ELSE IF pipeline_steps.none \/ Len(pipeline_steps.list) = 0
      THEN PolicyViolation(policy.name, "no pipeline steps provided", required_steps, 0)
      ELSE IF Len(missing_steps) > 0
      THEN PolicyViolation(policy.name, "Missing required steps", missing_steps, 0)
      ELSE NoViolation

\* Policy._validate_evolution_count: the violation raised, or NoViolation.
validate_evolution_count(policy, change_id, generation_id, rows) ==
  LET count == Len(SelectSeq(rows, LAMBDA e : e.generation_id = generation_id
                                             /\ e.change_id = change_id))
  IN  IF count < policy.config.min_evolutions
      THEN PolicyViolation(policy.name, "Insufficient evolutions", <<>>, count)
      ELSE NoViolation

\* Policy.validate: the violation raised, or NoViolation.
validate(policy, change_type, change_id, generation_id, rows, pipeline_steps) ==
  IF ~applies_to(policy, change_type) THEN NoViolation
  ELSE IF policy.type = "change_type"
  THEN validate_change_type(policy, change_type, change_id, pipeline_steps)
  ELSE IF policy.type = "evolution_count"
  THEN validate_evolution_count(policy, change_id, generation_id, rows)
  ELSE NoViolation

\* A broken loop: stops at the first policy that raises.
RECURSIVE validate_all_first(_, _, _, _, _, _)
validate_all_first(policies, change_type, change_id, generation_id, rows, pipeline_steps) ==
  IF Len(policies) = 0 THEN <<>>
  ELSE LET e == validate(Head(policies), change_type, change_id, generation_id, rows,
                         pipeline_steps)
       IN  IF e # NoViolation THEN <<e>>
           ELSE validate_all_first(Tail(policies), change_type, change_id,
                                   generation_id, rows, pipeline_steps)

\* PolicySet.validate_all: the list of the violations raised, in policy order.
RECURSIVE validate_all(_, _, _, _, _, _)
validate_all(policies, change_type, change_id, generation_id, rows, pipeline_steps) ==
  IF Len(policies) = 0 THEN <<>>
  ELSE LET e == validate(Head(policies), change_type, change_id, generation_id, rows,
                         pipeline_steps)
       IN  (IF e # NoViolation THEN <<e>> ELSE <<>>)
             \o validate_all(Tail(policies), change_type, change_id, generation_id,
                             rows, pipeline_steps)

\* A call of PolicySet(policies).validate_all on the store.
ValidateAll(policies, change_type, change_id, generation_id, pipeline_steps) ==
  /\ last' = [NoResult EXCEPT
                !.op = "validate_all",
                !.args = [policies |-> policies, change_type |-> change_type,
                          change_id |-> change_id, generation_id |-> generation_id,
                          pipeline_steps |-> pipeline_steps],
                !.violations = validate_all(policies, change_type, change_id,
                                            generation_id, evolutions, pipeline_steps)]
  /\ UNCHANGED <<generations, changes, evolutions, nextGen, nextEvo, clock, st, pm, pv,
                 remote, mem, bus, handler>>

\* A hook that lets every change through.
validate_for_evolution_pass(policies, change_type, change_id, generation_id, rows, steps) ==
  NoViolation

\* PolicyHook.validate_for_evolution: validate is called policy by policy and
\* the first violation is raised; NoViolation when none is.
RECURSIVE validate_for_evolution(_, _, _, _, _, _)
validate_for_evolution(policies, change_type, change_id, generation_id, rows, steps) ==
  IF Len(policies) = 0 THEN NoViolation
  ELSE LET e == validate(Head(policies), change_type, change_id, generation_id, rows,
                         steps)
       IN  IF e # NoViolation THEN e
           ELSE validate_for_evolution(Tail(policies), change_type, change_id,
                                       generation_id, rows, steps)

\* cmd_evolution_start up to and including the first part of
\* Evolution.start_evolution; policies is the content of policies.yaml (empty
\* when there is no such file). The generation and the change are looked up,
\* the policies are validated with pipeline_steps=None, and a violation ends
\* the command with exit code 2 before start_evolution is called.
CmdEvolutionStart(p, version0, change_id, policies) ==
  LET version == NormalizeVersion(version0)
      gen_rows == GenerationsByVersion(version)
      generation_id == gen_rows[1].generation_id
      change_rows == SelectSeq(changes, LAMBDA c : c.generation_id = generation_id
                                                  /\ c.change_id = change_id)
      change_type == change_rows[1].type
      e == validate_for_evolution(policies, change_type, change_id, generation_id,
                                  evolutions, NoSteps)
      args == [policies |-> policies, change_type |-> change_type,
               change_id |-> change_id, generation_id |-> generation_id,
               pipeline_steps |-> NoSteps]
  IN  /\ st[p].pc = "idle"
      /\ IF Len(gen_rows) = 0
         THEN /\ last' = [NoResult EXCEPT !.op = "evolution_start", !.exit_code = 2]
              /\ UNCHANGED <<generations, changes, evolutions, nextGen, nextEvo, clock,
                             st, pm, pv, remote, mem, bus, handler>>
         ELSE IF Len(change_rows) = 0
         THEN /\ last' = [NoResult EXCEPT !.op = "evolution_start", !.exit_code = 2,
                                          !.generation_id = generation_id]
              /\ UNCHANGED <<generations, changes, evolutions, nextGen, nextEvo, clock,
                             st, pm, pv, remote, mem, bus, handler>>
         ELSE IF e # NoViolation
         THEN /\ last' = [NoResult EXCEPT !.op = "evolution_start", !.exit_code = 2,
                                          !.generation_id = generation_id,
                                          !.args = args, !.violations = <<e>>]
              /\ UNCHANGED <<generations, changes, evolutions, nextGen, nextEvo, clock,
                             st, pm, pv, remote, mem, bus, handler>>
         ELSE StartScan(p, version, change_id)

(***************************************************************************)
(* EventBus and CloudSyncHandler                                           *)
(***************************************************************************)
\* The handler CloudSyncHandler.attach subscribes to each event name.
Subscriptions ==
  <<[event_name |-> "generation.created", h |-> "_on_generation_created"],
    [event_name |-> "generation.updated", h |-> "_on_generation_updated"],
    [event_name |-> "generation.promoted", h |-> "_on_generation_promoted"],
    [event_name |-> "evolution.created", h |-> "_on_evolution_created"],
    [event_name |-> "evolution.completed", h |-> "_on_evolution_completed"],
    [event_name |-> "evolution.failed", h |-> "_on_evolution_failed"]>>

\* EventBus.subscribe
subscribe(b, event_name, h) == [b EXCEPT ![event_name] = Append(@, h)]

\* EventBus.unsubscribe: list.remove drops the first occurrence of h.
unsubscribe(b, event_name, h) ==
  LET hs == b[event_name]
      i == CHOOSE k \in DOMAIN hs : hs[k] = h /\ \A m \in 1..(k - 1) : hs[m] # h
  IN  [b EXCEPT ![event_name] = SubSeq(hs, 1, i - 1) \o SubSeq(hs, i + 1, Len(hs))]

RECURSIVE SubscribeAll(_, _)
SubscribeAll(b, subs) ==
  IF Len(subs) = 0 THEN b
  ELSE SubscribeAll(subscribe(b, Head(subs).event_name, Head(subs).h), Tail(subs))

RECURSIVE UnsubscribeAll(_, _)
UnsubscribeAll(b, subs) ==
  IF Len(subs) = 0 THEN b
  ELSE UnsubscribeAll(unsubscribe(b, Head(subs).event_name, Head(subs).h), Tail(subs))

\* CloudSyncHandler(client, data, execution_mode); configured tells whether
\* both client and data are given, so that the handler owns a CloudSync.
NewHandler(execution_mode, configured) ==
  /\ ~handler.subscribed
  /\ handler' = [execution_mode |-> execution_mode, subscribed |-> FALSE,
                 sync |-> configured]
  /\ UNCHANGED <<generations, changes, evolutions, nextGen, nextEvo, clock, st, pm, pv,
                 last, remote, mem, bus>>

\* CloudSyncHandler.attach(bus)
attach ==
  /\ handler # NoHandler
  /\ ~handler.subscribed
  /\ bus' = SubscribeAll(bus, Subscriptions)
  /\ handler' = [handler EXCEPT !.subscribed = TRUE]
  /\ UNCHANGED <<generations, changes, evolutions, nextGen, nextEvo, clock, st, pm, pv,
                 last, remote, mem>>

\* CloudSyncHandler.detach(bus)
detach ==
  /\ handler.subscribed
  /\ bus' = UnsubscribeAll(bus, Subscriptions)
  /\ handler' = [handler EXCEPT !.subscribed = FALSE]
  /\ UNCHANGED <<generations, changes, evolutions, nextGen, nextEvo, clock, st, pm, pv,
                 last, remote, mem>>

\* The condition on execution_mode under which handler h goes on to sync.
HandlerSyncs(h, execution_mode) ==
  IF h \in {"_on_generation_created", "_on_generation_updated", "_on_evolution_created"}
  THEN execution_mode = "cloud"
  ELSE execution_mode \in {"cloud", "hybrid"}

\* The event names that carry a generation as payload.
GenerationEvents == {"generation.created", "generation.updated", "generation.promoted"}

\* The outcome of an emission that ends without a call of CloudSync.
Emitted(event_name) ==
  [NoResult EXCEPT !.op = "emit", !.events = <<event_name>>, !.called = bus[event_name]]

\* EventBus.emit(event_name, payload) with the payload built by to_dict() from
\* the stored generation or evolution of the given id. At most one handler is
\* subscribed per event name (attach returns when already subscribed).
\* _sync_generation calls push(version); _sync_evolution looks the version of
\* the evolution's generation up and calls push_evolutions(version); both
\* catch what the call raises.
emit(event_name, id, net) ==
  LET handlers == bus[event_name]
      h == handlers[1]
      rows == GenerationsById(id)
      evos == SelectSeq(evolutions, LAMBDA e : e.evolution_id = id)
      evo_rows == GenerationsById(evos[1].generation_id)
  IN  /\ IF event_name \in GenerationEvents THEN Len(rows) > 0 ELSE Len(evos) > 0
      /\ IF Len(handlers) = 0 \/ ~HandlerSyncs(h, handler.execution_mode) \/ ~handler.sync
         THEN /\ last' = Emitted(event_name)
              /\ UNCHANGED <<generations, changes, evolutions, nextGen, nextEvo, clock,
                             st, pm, pv, remote, mem, bus, handler>>
         ELSE IF event_name \in GenerationEvents
         THEN Push(TRUE, rows[1].version, FALSE, net)
         ELSE IF Len(evo_rows) > 0
         THEN PushEvolutions(evo_rows[1].version, net)
         ELSE /\ last' = Emitted(event_name)
              /\ UNCHANGED <<generations, changes, evolutions, nextGen, nextEvo, clock,
                             st, pm, pv, remote, mem, bus, handler>>

(***************************************************************************)
(* Specifications                                                          *)
(***************************************************************************)
\* No call is in progress.
Idle == pm.pc = "idle" /\ pv.pc = "idle" /\ \A c \in Callers : st[c].pc = "idle"

\* The single calling thread: every operation runs to completion before the
\* next one begins.
Next ==
  \/ /\ Idle
     /\ \/ \E v \in VersionInputs, ids \in ChangeLists, u \in Users :
             CreateGeneration(v, ids, u)
        \/ \E p \in Callers, v \in VersionInputs \cup {AbsentVersion}, c \in ChangeIds :
             StartScan(p, v, c)
        \/ \E e \in 1..MaxEvolutions, h \in BOOLEAN :
             ProveBegin([id |-> e, tag |-> NoTag], h)
        \/ \E v \in VersionInputs, n \in 1..MaxEvolutions :
             ProveBegin([id |-> 0, tag |-> FormatRcTag(NormalizeVersion(v), n)], TRUE)
        \/ \E g \in 1..MaxGenerations, ga \in GateInputs, a \in BOOLEAN, u \in Users :
             PromoteCall(g, ga, a, u)
  \/ \E p \in Callers, u \in Users, a \in BOOLEAN, git \in GitOutcomes :
       StartInsert(p, u, a, git)
  \/ \E o \in OutcomeLists : ProveEnd(o)
  \/ PromoteSave
  \/ \E git \in GitOutcomes : PromoteTag(git)
  \/ PromoteEmit

Spec == Init /\ [][Next]_vars

\* Concurrent callers of start_evolution on one store: the scan and the
\* insert of different calls interleave.
NextStart ==
  \/ \E v \in VersionInputs, ids \in ChangeLists, u \in Users : CreateGeneration(v, ids, u)
  \/ \E g \in 1..MaxGenerations, c \in ChangeIds, n \in DirectRcNums, u \in Users :
       SaveNewEvolution(g, c, n, u)
  \/ \E p \in Callers, v \in VersionInputs \cup {AbsentVersion}, c \in ChangeIds :
       StartScan(p, v, c)
  \/ \E p \in Callers, u \in Users, a \in BOOLEAN, git \in GitOutcomes :
       StartInsert(p, u, a, git)

SpecStart == Init /\ [][NextStart]_vars

\* One store and the remote side: the single calling thread runs the
\* generation, evolution and sync operations one after another, while other
\* stores write to the remote side.
SyncVersion == <<"v", "1.0.0">>
RemoteVersions == {SyncVersion, <<"v", "2.0.0">>}
SyncChangeLists == {<<"FEAT-1">>, <<"FEAT-2">>}

NextSync ==
  \/ /\ Idle
     /\ \/ /\ nextGen = 1
           /\ \E ids \in SyncChangeLists, u \in Users :
                CreateGeneration(SyncVersion, ids, u)
        \/ nextEvo <= MaxEvolutions /\ StartScan("c1", SyncVersion, "FEAT-1")
        \/ \E g \in 1..MaxGenerations, u \in Users :
             PromoteCall(g, [none |-> FALSE, list |-> <<>>], FALSE, u)
        \/ \E list_ok \in BOOLEAN, evos_ok \in BOOLEAN : Pull(list_ok, evos_ok)
        \/ \E hv \in BOOLEAN, f \in BOOLEAN, net \in NetOutcomes :
             Push(hv, SyncVersion, f, net)
        \/ \E net \in NetOutcomes : PushEvolutions(SyncVersion, net)
        \/ \E v \in RemoteVersions, ids \in SyncChangeLists, u \in Users :
             RemoteCreate(v, ids, u)
        \/ \E id \in {RemoteGenId(n) : n \in 1..MaxRemote}, c \in ChangeIds,
              u \in Users :
             RemoteEvolution(id, c, "pass", u)
  \/ \E u \in Users : StartInsert("c1", u, FALSE, "ok")
  \/ PromoteSave
  \/ PromoteEmit

SpecSync == Init /\ [][NextSync]_vars

\* One store edited through Generation objects and the update command, with
\* pushes of the generation in between.
NextEdit ==
  \/ /\ Idle
     /\ \/ /\ nextGen = 1
           /\ \E ids \in SyncChangeLists, u \in Users :
                CreateGeneration(SyncVersion, ids, u)
        \/ nextEvo <= MaxEvolutions /\ \E c \in ChangeIds : StartScan("c1", SyncVersion, c)
        \/ \E g \in 1..MaxGenerations : LoadGeneration(g)
        \/ SaveGeneration
        \/ \E ids \in SyncChangeLists : GenerationUpdate(SyncVersion, ids)
        \/ \E net \in NetOutcomes : Push(TRUE, SyncVersion, FALSE, net)
  \/ \E u \in Users : StartInsert("c1", u, FALSE, "ok")

SpecEdit == Init /\ [][NextEdit]_vars

\* One store pushing the evolutions of its generation.
NextPushEvo ==
  \/ /\ Idle
     /\ \/ /\ nextGen = 1
           /\ \E ids \in SyncChangeLists, u \in Users :
                CreateGeneration(SyncVersion, ids, u)
        \/ nextEvo <= MaxEvolutions /\ \E c \in ChangeIds : StartScan("c1", SyncVersion, c)
        \/ \E e \in 1..MaxEvolutions : ProveBegin([id |-> e, tag |-> NoTag], TRUE)
        \/ \E net \in NetOutcomes : Push(TRUE, SyncVersion, FALSE, net)
        \/ \E net \in NetOutcomes : PushEvolutions(SyncVersion, net)
        \/ \E e \in 1..MaxEvolutions : RemoteCopyEvolution(e)
  \/ \E u \in Users : StartInsert("c1", u, FALSE, "ok")
  \/ \E o \in {<<"success">>, <<"error">>} : ProveEnd(o)

SpecPushEvo == Init /\ [][NextPushEvo]_vars

\* One store with a CloudSyncHandler on the event bus: generations and
\* evolutions reach the store by pull or, while nothing is subscribed, by the
\* create and promote commands; then the events that save_to_db and promote
\* emit for a stored row are emitted.
\* One store with policies: generations are created, validate_all is called
\* on policy lists, and evolutions are started through the command, which
\* validates the policies of policies.yaml first.
NextPolicy ==
  \/ /\ Idle
     /\ \/ /\ nextGen = 1
           /\ \E ids \in SyncChangeLists, u \in Users :
                CreateGeneration(SyncVersion, ids, u)
        \/ \E ps \in PolicySets, ct \in ChangeTypes, c \in ChangeIds,
              i \in DOMAIN generations, steps \in StepInputs :
             ValidateAll(ps, ct, c, generations[i].generation_id, steps)
        \/ /\ nextEvo <= MaxEvolutions
           /\ \E c \in ChangeIds, ps \in PolicySets :
                CmdEvolutionStart("c1", SyncVersion, c, ps)
  \/ \E u \in Users, a \in BOOLEAN : StartInsert("c1", u, a, "ok")

SpecPolicy == Init /\ [][NextPolicy]_vars

\* Handlers other than those of CloudSyncHandler: one that returns and one
\* that raises an Exception.
HandlerInputs == {"returning_handler", "raising_handler"}

\* A broken loop: the exception of a handler ends the emission and reaches
\* the emitter.
RECURSIVE InvokeUntilRaise(_)
InvokeUntilRaise(handlers) ==
  IF Len(handlers) = 0 THEN [called |-> <<>>, raised |-> ""]
  ELSE IF Head(handlers) = "raising_handler"
  THEN [called |-> <<Head(handlers)>>, raised |-> "Exception"]
  ELSE LET rest == InvokeUntilRaise(Tail(handlers))
       IN  [rest EXCEPT !.called = <<Head(handlers)>> \o @]

\* The loop of EventBus.emit: every handler is called in list order, inside
\* its own try/except Exception; called lists the handlers invoked and raised
\* is what leaves emit.
RECURSIVE InvokeHandlers(_)
InvokeHandlers(handlers) ==
  IF Len(handlers) = 0 THEN [called |-> <<>>, raised |-> ""]
  ELSE LET rest == InvokeHandlers(Tail(handlers))
       IN  [rest EXCEPT !.called = <<Head(handlers)>> \o @]

\* bus.subscribe(event_name, h) for one of the handlers above.
BusSubscribe(event_name, h) ==
  /\ Len(bus[event_name]) < MaxHandlers
  /\ bus' = subscribe(bus, event_name, h)
  /\ UNCHANGED <<generations, changes, evolutions, nextGen, nextEvo, clock, st, pm, pv,
                 last, remote, mem, handler>>

\* bus.emit(event_name, payload) with handlers of the kinds above subscribed.
BusEmit(event_name) ==
  /\ last' = [NoResult EXCEPT !.op = "emit", !.events = <<event_name>>,
                              !.called = InvokeHandlers(bus[event_name]).called,
                              !.raised = InvokeHandlers(bus[event_name]).raised]
  /\ UNCHANGED <<generations, changes, evolutions, nextGen, nextEvo, clock, st, pm, pv,
                 remote, mem, bus, handler>>

(***************************************************************************)
(* HotfixWorkflow: the version of a hot-fix                                *)
(***************************************************************************)
\* s.lstrip("v"): every leading "v" is removed.
RECURSIVE lstrip_v(_)
lstrip_v(s) == IF Len(s) > 0 /\ Head(s) = "v" THEN lstrip_v(Tail(s)) ELSE s

\* s.split("."), on a string given character by character.
RECURSIVE split(_)
split(s) ==
  IF \A i \in 1..Len(s) : s[i] # "."
  THEN <<s>>
  ELSE LET i == CHOOSE k \in 1..Len(s) : s[k] = "." /\ \A j \in 1..(k - 1) : s[j] # "."
       IN  <<SubSeq(s, 1, i - 1)>> \o split(SubSeq(s, i + 1, Len(s)))

\* _calculate_hotfix_version(base_version) over the stored generations: the
\* first row of SELECT version ... WHERE version LIKE 'v<major>.<minor>.%'
\* ORDER BY version DESC, in the store's text order, gives the patch number
\* to increase; without such a row the base's own patch number is increased.
calculate_hotfix_version(rows, base_version) ==
  LET parts == split(lstrip_v(base_version))
  IN  IF Len(parts) # 3
      THEN [raised |-> "ValueError", version |-> <<>>]
      ELSE LET prefix == <<"v">> \o parts[1] \o <<".">> \o parts[2] \o <<".">>
               existing == SortSeq(SelectSeq(rows, LAMBDA r : startswith(r.version, prefix)),
                                   LAMBDA x, y : TagGreater(x.version, y.version))
               new_patch == IF Len(existing) > 0
                            THEN int(split(lstrip_v(existing[1].version))[3]) + 1
                            ELSE int(parts[3]) + 1
           IN  [raised |-> "", version |-> prefix \o str(new_patch)]

\* workflow._calculate_hotfix_version(base_version), called on its own.
CalculateHotfixVersion(base_version) ==
  LET out == calculate_hotfix_version(generations, base_version)
  IN  /\ last' = [NoResult EXCEPT !.op = "calculate_hotfix_version",
                                  !.raised = out.raised, !.tag = out.version]
      /\ UNCHANGED <<generations, changes, evolutions, nextGen, nextEvo, clock, st, pm, pv,
                     remote, mem, bus, handler>>

\* create_hotfix_generation(base_version, issue_id, title): a new Generation
\* with the calculated version and one Change of type fix is saved.
create_hotfix_generation(base_version, issue_id, user) ==
  LET out == calculate_hotfix_version(generations, base_version)
      gid == nextGen
      row == [generation_id |-> gid, version |-> out.version, status |-> "draft",
              sync_status |-> "not_synced", remote_id |-> 0, promoted_at |-> 0,
              promoted_by |-> "", created_by |-> user]
  IN  /\ Len(generations) < MaxGenerations
      /\ IF out.raised # ""
         THEN /\ last' = [NoResult EXCEPT !.op = "create_hotfix_generation",
                                          !.raised = out.raised]
              /\ UNCHANGED <<generations, changes, nextGen>>
         ELSE /\ generations' = Append(generations, row)
              /\ changes' = IF \E i \in DOMAIN changes : changes[i].change_id = issue_id
                            THEN changes
                            ELSE Append(changes, [change_id |-> issue_id,
                                                  generation_id |-> gid, type |-> "fix"])
              /\ nextGen' = nextGen + 1
              /\ last' = [NoResult EXCEPT !.op = "create_hotfix_generation",
                                          !.success = TRUE, !.generation_id = gid,
                                          !.tag = out.version,
                                          !.events = <<"generation.created">>]
      /\ UNCHANGED <<evolutions, nextEvo, clock, st, pm, pv, remote, mem, bus, handler>>

\* Generations are created directly and as hot-fixes of a base version; the
\* versions are given character by character.
NextVersion ==
  \/ \E v \in {<<"v", "1", ".", "2", ".", "9">>, <<"v", "1", ".", "2", ".", "0">>,
                <<"2", ".", "0", ".", "0">>}, u \in Users :
       CreateGeneration(v, <<"FEAT-1">>, u)
  \/ \E b \in {<<"v", "1", ".", "2", ".", "9">>, <<"1", ".", "2", ".", "0">>,
                <<"v", "2", ".", "0", ".", "9">>, <<"v", "1", ".", "2">>} :
       \/ CalculateHotfixVersion(b)
       \/ \E issue_id \in {"BUG-1", "FEAT-1"}, u \in Users :
            create_hotfix_generation(b, issue_id, u)

SpecVersion == Init /\ [][NextVersion]_vars

\* Promotion through the promote command and through the hot-fix workflow, of
\* one Generation whose Change is proven by evolutions.
NextHotfix ==
  \/ /\ Idle
     /\ \/ /\ nextGen = 1
           /\ \E u \in Users : CreateGeneration(SyncVersion, <<"FEAT-1">>, u)
        \/ nextEvo <= MaxEvolutions /\ StartScan("c1", SyncVersion, "FEAT-1")
        \/ \E e \in 1..MaxEvolutions : ProveBegin([id |-> e, tag |-> NoTag], TRUE)
        \/ \E v \in {SyncVersion, AbsentVersion}, no_tag \in BOOLEAN, u \in Users :
             cmd_generation_promote(v, no_tag, u)
        \/ \E g \in 1..MaxGenerations, a \in BOOLEAN, u \in Users :
             promote_hotfix(g, a, u)
  \/ \E u \in Users : StartInsert("c1", u, FALSE, "ok")
  \/ \E o \in OutcomeLists : ProveEnd(o)
  \/ PromoteSave
  \/ \E git \in GitOutcomes : PromoteTag(git)
  \/ PromoteEmit

SpecHotfix == Init /\ [][NextHotfix]_vars

\* The event bus alone: handlers are subscribed and events emitted.
NextBus ==
  \/ \E e \in {"generation.created", "generation.promoted"}, h \in HandlerInputs :
       BusSubscribe(e, h)
  \/ \E e \in {"generation.created", "generation.promoted", "evolution.failed"} :
       BusEmit(e)

SpecBus == Init /\ [][NextBus]_vars

\* The remote side while the handler syncs: every call answers, or none does.
HandlerNets == {[probe |-> TRUE, create |-> TRUE, update |-> TRUE],
                [probe |-> FALSE, create |-> FALSE, update |-> FALSE]}

NextHandler ==
  \/ /\ Idle
     /\ \/ \E m \in ExecutionModes, configured \in BOOLEAN : NewHandler(m, configured)
        \/ attach
        \/ detach
        \/ /\ ~handler.subscribed
           /\ nextGen = 1
           /\ \E u \in Users : CreateGeneration(SyncVersion, <<"FEAT-1">>, u)
        \/ /\ ~handler.subscribed
           /\ \E g \in 1..MaxGenerations, u \in Users :
                PromoteCall(g, [none |-> FALSE, list |-> <<>>], FALSE, u)
        \/ \E u \in Users : RemoteCreate(SyncVersion, <<"FEAT-1">>, u)
        \/ \E id \in {RemoteGenId(n) : n \in 1..MaxRemote}, c \in ChangeIds,
              status \in {"pending", "pass", "fail"}, u \in Users :
             RemoteEvolution(id, c, status, u)
        \/ Pull(TRUE, TRUE)
        \/ \E i \in DOMAIN generations, is_new \in BOOLEAN, net \in HandlerNets :
             emit(GenerationSaveEvents(is_new, TRUE)[1], generations[i].generation_id,
                  net)
        \/ \E i \in DOMAIN generations, net \in HandlerNets :
             /\ generations[i].status = "promoted"
             /\ emit("generation.promoted", generations[i].generation_id, net)
        \/ \E i \in DOMAIN evolutions, is_new \in BOOLEAN, net \in HandlerNets :
             emit(EvolutionEventName(is_new, evolutions[i].status),
                  evolutions[i].evolution_id, net)
  \/ PromoteSave
  \/ PromoteEmit

SpecHandler == Init /\ [][NextHandler]_vars

\* The remote side during a batch: every call answers, or one kind of call
\* fails.
BatchNets ==
  {[probe |-> TRUE, create |-> TRUE, update |-> TRUE],
   [probe |-> FALSE, create |-> TRUE, update |-> TRUE],
   [probe |-> TRUE, create |-> FALSE, update |-> TRUE],
   [probe |-> TRUE, create |-> TRUE, update |-> FALSE]}

\* Batches of generations pushed from one store: generations created here and
\* generations pulled from the remote side, pushed together.
NextBatch ==
  \/ \E v \in RemoteVersions, ids \in SyncChangeLists, u \in Users :
       CreateGeneration(v, ids, u)
  \/ \E v \in RemoteVersions, ids \in SyncChangeLists, u \in Users :
       RemoteCreate(v, ids, u)
  \/ \E list_ok \in BOOLEAN : Pull(list_ok, TRUE)
  \/ \E f \in BOOLEAN, net \in BatchNets : Push(FALSE, SyncVersion, f, net)

SpecBatch == Init /\ [][NextBatch]_vars

(***************************************************************************)
(* Promotion gates                                                         *)
(***************************************************************************)
StoredGenerationIds == {generations[i].generation_id : i \in DOMAIN generations}

StoredGeneration(gid) == GenerationsById(gid)[1]

\* The change ids of generation gid that have no stored Evolution with status
\* pass for the pair (gid, change id).
LackPass(gid) ==
  {changes[k].change_id : k \in {j \in DOMAIN changes : changes[j].generation_id = gid}}
    \ {evolutions[i].change_id :
         i \in {j \in DOMAIN evolutions :
                  evolutions[j].generation_id = gid /\ evolutions[j].status = "pass"}}

\* C8 (as the code has it): AllChangesProvenGate passes exactly when the
\* Generation has at least one Change and every Change has a stored Evolution
\* with status pass for its (generation_id, change_id); a Generation without
\* changes does not pass.  When the gate does not pass, its unproven list holds
\* exactly the change ids lacking a pass Evolution, each once.
C8_AllChangesProven ==
  \A gid \in StoredGenerationIds :
    LET g == from_db(gid)
        result == AllChangesProvenGate(g, evolutions)
    IN  /\ result.passed <=> (Len(g.changes) > 0 /\ LackPass(gid) = {})
        /\ ~result.passed =>
             /\ Range(result.unproven_changes) = LackPass(gid)
             /\ Len(result.unproven_changes) = Cardinality(LackPass(gid))

\* C8 as stated: the gate passes if and only if every Change has a pass
\* Evolution.
C8_AsStated ==
  \A gid \in StoredGenerationIds :
    AllChangesProvenGate(from_db(gid), evolutions).passed <=> (LackPass(gid) = {})

\* promote has run the gate on a Generation without changes, and it did not pass.
C8_Witness ==
  /\ Idle /\ last.op = "promote"
  /\ Len(ChangesOf(last.generation_id)) = 0
  /\ \E i \in DOMAIN last.gate_results :
       /\ last.gate_results[i].gate = "all_changes_proven"
       /\ ~last.gate_results[i].passed

\* C9: NoFailedEvolutionsGate reports passed=false if and only if at least one
\* stored Evolution of the Generation has status fail, whatever the number of
\* Evolutions with status pass.
C9_NoFailedEvolutions ==
  \A gid \in StoredGenerationIds :
    (~NoFailedEvolutionsGate(from_db(gid), evolutions).passed)
      <=> (\E i \in DOMAIN evolutions :
             evolutions[i].generation_id = gid /\ evolutions[i].status = "fail")

\* promote has run the gate, which failed although an Evolution of the same
\* Generation has passed.
C9_Witness ==
  /\ Idle /\ last.op = "promote"
  /\ \E i \in DOMAIN last.gate_results :
       /\ last.gate_results[i].gate = "no_failed_evolutions"
       /\ ~last.gate_results[i].passed
  /\ \E i \in DOMAIN evolutions :
       evolutions[i].generation_id = last.generation_id /\ evolutions[i].status = "pass"

(***************************************************************************)
(* Promotion                                                               *)
(***************************************************************************)
\* Generation gid is v1.0.0 with the single change FEAT-1.
ScenarioGeneration(gid) ==
  /\ gid \in StoredGenerationIds
  /\ StoredGeneration(gid).version = <<"v", "1.0.0">>
  /\ [k \in DOMAIN ChangesOf(gid) |-> ChangesOf(gid)[k].change_id] = <<"FEAT-1">>

\* Its only evolution is v1.0.0-rc.1, proved with status fail.
AfterFirstProve(gid) ==
  /\ ScenarioGeneration(gid)
  /\ Len(EvolutionsOf(gid)) = 1
  /\ EvolutionsOf(gid)[1].tag = <<"v", "1.0.0", "-rc.", "1">>
  /\ EvolutionsOf(gid)[1].status = "fail"

\* Its evolutions are v1.0.0-rc.1 with status fail and v1.0.0-rc.2 with
\* status pass.
AfterSecondProve(gid) ==
  /\ ScenarioGeneration(gid)
  /\ Len(EvolutionsOf(gid)) = 2
  /\ EvolutionsOf(gid)[1].tag = <<"v", "1.0.0", "-rc.", "1">>
  /\ EvolutionsOf(gid)[1].status = "fail"
  /\ EvolutionsOf(gid)[2].tag = <<"v", "1.0.0", "-rc.", "2">>
  /\ EvolutionsOf(gid)[2].status = "pass"

\* promote with the default gates is the call that returned last.
DefaultPromoteReturned ==
  Idle /\ last.op = "promote" /\ last.gates = get_default_gates

\* C1 (as the code has it): for a Generation v1.0.0 with the single Change
\* FEAT-1, promote with the default gates returns success=false after rc.1 was
\* proved fail, and it still returns success=false after rc.2 was proved pass:
\* AllChangesProvenGate then passes, NoFailedEvolutionsGate still reports the
\* failed rc.1, and the Generation keeps the status and the promotion stamp it
\* was loaded with.
C1_Scenario ==
  DefaultPromoteReturned =>
    LET gid == last.generation_id
    IN  /\ AfterFirstProve(gid) =>
             /\ ~last.success
             /\ ~last.gate_results[1].passed
             /\ last.gate_results[1].unproven_changes = <<"FEAT-1">>
             /\ StoredGeneration(gid).status = last.obj_status
             /\ StoredGeneration(gid).promoted_at = last.obj_promoted_at
        /\ AfterSecondProve(gid) =>
             /\ ~last.success
             /\ last.gate_results[1].passed
             /\ ~last.gate_results[2].passed
             /\ last.gate_results[2].failed_evolutions
                  = <<EvolutionsOf(gid)[1].evolution_id>>
             /\ StoredGeneration(gid).status = last.obj_status
             /\ StoredGeneration(gid).promoted_at = last.obj_promoted_at

\* C1 as stated: after rc.2 was proved pass, promote with the default gates
\* returns success=true and the Generation is promoted.
C1_AsStated ==
  (DefaultPromoteReturned /\ AfterSecondProve(last.generation_id)) =>
    (last.success /\ StoredGeneration(last.generation_id).status = "promoted")

\* promote with the default gates has returned after rc.1 fail and rc.2 pass.
C1_Witness ==
  DefaultPromoteReturned /\ AfterSecondProve(last.generation_id)

\* C2: a promote call in which at least one gate reports passed=false returns
\* success=false, writes nothing to the store, leaves status, promoted_at and
\* promoted_by of the object as loaded and as stored, attempts no tag and emits
\* no event.
C2_FailedGateAborts ==
  [][(/\ last' # last
      /\ last'.op = "promote"
      /\ \E i \in DOMAIN last'.gate_results : ~last'.gate_results[i].passed)
       => /\ ~last'.success /\ last'.raised = ""
          /\ generations' = generations /\ changes' = changes
          /\ evolutions' = evolutions /\ clock' = clock
          /\ pm.pc = "idle" /\ pm' = pm
          /\ last'.events = <<>>
          /\ ~last'.tag_attempted /\ ~last'.tag_created /\ last'.tag = NoTag
          /\ LET row == StoredGeneration(last'.generation_id)
             IN  /\ last'.obj_status = row.status
                 /\ last'.obj_promoted_at = row.promoted_at
                 /\ last'.obj_promoted_by = row.promoted_by]_vars

\* promote has returned with one gate failed and another passed.
C2_Witness ==
  /\ Idle /\ last.op = "promote" /\ ~last.success
  /\ \E i, j \in DOMAIN last.gate_results :
       ~last.gate_results[i].passed /\ last.gate_results[j].passed

\* C3: the gate_results promote returns hold one entry per supplied gate, in
\* the order of the list, and each entry is the verdict of that gate's check
\* on the Generation, also for the gates after one that failed.
C3_EveryGateChecked ==
  (Idle /\ last.op = "promote" /\ last.raised = "") =>
    /\ Len(last.gate_results) = Len(last.gates)
    /\ \A i \in DOMAIN last.gates :
         /\ last.gate_results[i].gate = last.gates[i]
         /\ last.gate_results[i]
              = GateCheck(last.gates[i], from_db(last.generation_id), evolutions)

\* promote has returned the verdicts of two gates of which the first failed.
C3_Witness ==
  /\ Idle /\ last.op = "promote" /\ last.raised = ""
  /\ Len(last.gates) = 2 /\ Len(last.gate_results) = 2
  /\ ~last.gate_results[1].passed
  /\ last.gate_results[2].passed

\* Every gate of the call that returned last has passed.
EveryGatePassed == \A i \in DOMAIN last.gate_results : last.gate_results[i].passed

\* C4: when every supplied gate passes, promote marks and stamps the object,
\* persists it without an event, attempts the tag when auto_tag is set, and
\* then emits exactly one generation.promoted event and no other event.
C4_PromotionOrder ==
  /\ pm.pc = "save" =>
       /\ pm.obj.status = "promoted" /\ pm.obj.promoted_at > 0
       /\ StoredGeneration(pm.obj.generation_id).promoted_at # pm.obj.promoted_at
       /\ pm.events = <<>>
  /\ pm.pc \in {"tag", "emit"} =>
       /\ StoredGeneration(pm.obj.generation_id).status = "promoted"
       /\ StoredGeneration(pm.obj.generation_id).promoted_at = pm.obj.promoted_at
       /\ pm.events = <<>>
  /\ pm.pc = "tag" => pm.auto_tag /\ ~pm.tag_created
  /\ (Idle /\ last.op = "promote" /\ EveryGatePassed) =>
       last.events = <<"generation.promoted">>

\* C5: when the tag creation attempted by promote fails, promote returns
\* success=true with tag_created=false and no tag, the stored status is
\* promoted, and the generation.promoted event is emitted.
C5_TagFailureNonFatal ==
  (Idle /\ last.op = "promote" /\ EveryGatePassed
        /\ last.tag_attempted /\ ~last.tag_created) =>
    /\ last.raised = "" /\ last.success
    /\ last.tag = NoTag
    /\ StoredGeneration(last.generation_id).status = "promoted"
    /\ last.events = <<"generation.promoted">>

(***************************************************************************)
(* Evolution status and the prove command                                  *)
(***************************************************************************)
\* The stored Evolution with the given id.
StoredEvolution(rows, eid) == SelectSeq(rows, LAMBDA r : r.evolution_id = eid)[1]

\* The steps an Evolution's status may take.
StatusStep(old, new) ==
  \/ new = old
  \/ old = "pending" /\ new = "running"
  \/ old = "running" /\ new \in {"pass", "fail"}

\* C14: the stored status of an Evolution changes only along pending ->
\* running -> pass or fail, and a status of pass or fail never changes again,
\* whatever operation runs (a further prove of the same Evolution included).
C14_EvolutionStatusOneWay ==
  [][\A i \in DOMAIN evolutions, j \in DOMAIN evolutions' :
       evolutions'[j].evolution_id = evolutions[i].evolution_id
         => StatusStep(evolutions[i].status, evolutions'[j].status)]_vars

\* The outcome list holds no escaping exception.
Completes(outcomes) ==
  \A i \in DOMAIN outcomes : outcomes[i] \notin {"raise", "interrupt"}

\* C15: when prove runs its pipelines the Evolution is already stored as
\* running, and when the pipelines complete the stored status is fail if at
\* least one pipeline (or one of its steps) reported an error and pass
\* otherwise, with a completion time.
C15_ProveAggregates ==
  [][\A o \in OutcomeLists :
       (ProveEnd(o) /\ Completes(o)) =>
         /\ StoredEvolution(evolutions, pv.evolution_id).status = "running"
         /\ StoredEvolution(evolutions', pv.evolution_id).status
              = (IF \E i \in DOMAIN o : o[i] # "success" THEN "fail" ELSE "pass")
         /\ StoredEvolution(evolutions', pv.evolution_id).completed_at > 0
         /\ last'.success = (\A i \in DOMAIN o : o[i] = "success")]_vars

\* prove has completed with a failed pipeline and recorded fail.
C15_Witness ==
  /\ Idle /\ last.op = "prove" /\ last.raised = "" /\ last.exit_code = 1
  /\ StoredEvolution(evolutions, last.evolution_id).status = "fail"
  /\ StoredEvolution(evolutions, last.evolution_id).completed_at > 0

\* C16: when an exception escapes the execution of the pipelines, the stored
\* status becomes fail with a completion time and the exception reaches the
\* caller of prove; the Evolution is never left running.
C16_ExceptionMarksFailed ==
  [][\A o \in OutcomeLists :
       (ProveEnd(o) /\ ~Completes(o)) =>
         /\ StoredEvolution(evolutions', pv.evolution_id).status = "fail"
         /\ StoredEvolution(evolutions', pv.evolution_id).completed_at > 0
         /\ last'.raised # ""]_vars

(***************************************************************************)
(* Release-candidate numbering                                             *)
(***************************************************************************)
MaxRc == 12

AllVersions == {NormalizeVersion(v) : v \in VersionInputs \cup {AbsentVersion}}

\* The rc numbers n for which a stored Evolution carries the tag <v>-rc.<n>.
StoredRcs(v) ==
  {n \in 1..MaxRc : \E i \in DOMAIN evolutions : evolutions[i].tag = FormatRcTag(v, n)}

\* The largest of them, 0 when there is none.
LargestStoredRc(v) ==
  IF StoredRcs(v) = {} THEN 0
  ELSE CHOOSE n \in StoredRcs(v) : \A m \in StoredRcs(v) : m <= n

\* C6: for every version v, given with or without its leading "v",
\* generate_next_rc_tag returns <v>-rc.(m+1), where m is the largest rc number
\* among the stored tags of v and 0 when v has none: rc.1 for a version without
\* evolutions, rc.(k+1) after rc.1 .. rc.k.
C6_NextRcTag ==
  \A v0 \in VersionInputs \cup {AbsentVersion} :
    generate_next_rc_tag(evolutions, v0)
      = FormatRcTag(NormalizeVersion(v0), LargestStoredRc(NormalizeVersion(v0)) + 1)

\* A version holding rc.9 and rc.10, for which the next tag is rc.11.
C6_Witness ==
  \E v \in AllVersions :
    /\ StoredRcs(v) = {9, 10}
    /\ last.op = "start_evolution" /\ last.tag = FormatRcTag(v, 10)
    /\ generate_next_rc_tag(evolutions, v) = v \o <<"-rc.", "1", "1">>

\* C7: the insert of start_evolution stores a new row carrying exactly the
\* tag computed by its scan, whatever the store has received since the scan:
\* nothing re-reads the tags and the store refuses no duplicate.
C7_InsertKeepsScannedTag ==
  [][\A p \in Callers :
       (st[p].pc = "insert" /\ st'[p].pc = "idle")
         => /\ Len(evolutions') = Len(evolutions) + 1
            /\ evolutions'[Len(evolutions')].tag = st[p].tag
            /\ SubSeq(evolutions', 1, Len(evolutions)) = evolutions]_vars

\* Two Evolutions of one version stored under the same tag by two calls of
\* start_evolution.
C7_DuplicateTagStored ==
  \E i, j \in DOMAIN evolutions :
    /\ i < j
    /\ evolutions[i].tag = evolutions[j].tag
    /\ evolutions[i].generation_id = evolutions[j].generation_id
    /\ last.op = "start_evolution" /\ last.evolution_id = evolutions[j].evolution_id

\* C10: a start_evolution call for a version no Generation has raises the
\* not-found error, and one for a change_id that no Generation of that version
\* holds raises too; a call that raises leaves the evolutions table and the
\* next tag of every version as they were, attempts no tag and emits no event.
C10_StartRejected ==
  [][\A p \in Callers, v0 \in VersionInputs \cup {AbsentVersion}, c \in ChangeIds :
       StartScan(p, v0, c) =>
         LET v == NormalizeVersion(v0)
             no_generation == \A i \in DOMAIN generations : generations[i].version # v
             no_change == \A i \in DOMAIN generations :
                            generations[i].version = v =>
                              \A k \in DOMAIN changes :
                                ~(changes[k].generation_id = generations[i].generation_id
                                  /\ changes[k].change_id = c)
         IN  /\ no_generation =>
                  last'.op = "start_evolution"
                  /\ last'.raised = "ValueError: generation not found"
             /\ (~no_generation /\ no_change) =>
                  last'.op = "start_evolution"
                  /\ last'.raised = "ValueError: change not found"
             /\ (no_generation \/ no_change) =>
                  /\ evolutions' = evolutions
                  /\ nextEvo' = nextEvo
                  /\ st' = st
                  /\ last'.events = <<>>
                  /\ ~last'.tag_attempted /\ ~last'.tag_created
                  /\ \A w \in AllVersions :
                       generate_next_rc_tag(evolutions', w)
                         = generate_next_rc_tag(evolutions, w)]_vars

\* A rejected call for a change that belongs to a Generation of another version.
C10_Witness ==
  /\ last.op = "start_evolution"
  /\ last.raised = "ValueError: change not found"
  /\ Len(changes) > 0
  /\ \A c \in Callers : st[c].pc = "idle"

C12_RemoteIdPermanent ==
  [][/\ \A i \in DOMAIN generations, j \in DOMAIN generations' :
          ( /\ generations'[j].generation_id = generations[i].generation_id
            /\ generations[i].remote_id # 0 )
            => generations'[j].remote_id = generations[i].remote_id
     /\ \A i \in DOMAIN evolutions, j \in DOMAIN evolutions' :
          ( /\ evolutions'[j].evolution_id = evolutions[i].evolution_id
            /\ evolutions[i].remote_id # 0 )
            => evolutions'[j].remote_id = evolutions[i].remote_id]_vars

\* C13: the stored status of a Generation changes only from draft to
\* promoted, and a promoted Generation stays promoted.
C13_GenerationStatusOneWay ==
  [][\A i \in DOMAIN generations, j \in DOMAIN generations' :
       (generations'[j].generation_id = generations[i].generation_id
          /\ generations'[j].status # generations[i].status)
         => (generations[i].status = "draft" /\ generations'[j].status = "promoted")]_vars
(***************************************************************************)
(* pull                                                                    *)
(***************************************************************************)
\* The remote generations linked to a local row, and those that only share
\* their version with one.
Linked(cloud_gen) ==
  \E i \in DOMAIN generations : generations[i].remote_id = cloud_gen.id

VersionConflict(cloud_gen) ==
  ~Linked(cloud_gen) /\ Len(GenerationsByVersion(cloud_gen.version)) > 0

\* The local row linked to a remote generation.
LocalOf(rows, cloud_gen) == SelectSeq(rows, LAMBDA g : g.remote_id = cloud_gen.id)[1]

\* After the pull the linked local generation carries the remote scalar
\* fields, and its changes and evolutions are exactly the remote ones.
MirrorsRemote(cloud_gen) ==
  LET row == LocalOf(generations', cloud_gen)
      gid == row.generation_id
  IN  /\ row.version = cloud_gen.version
      /\ row.status = cloud_gen.status
      /\ row.promoted_at = cloud_gen.promoted_at
      /\ row.created_by = cloud_gen.created_by
      /\ row.promoted_by = cloud_gen.promoted_by
      /\ {changes'[i].change_id : i \in {k \in DOMAIN changes' :
                                           changes'[k].generation_id = gid}}
           = Range(cloud_gen.changes)
      /\ {evolutions'[i].evolution_id : i \in {k \in DOMAIN evolutions' :
                                                 evolutions'[k].generation_id = gid}}
           = {e.evolution_id : e \in Range(list_evolutions(remote, cloud_gen.id))}

\* C17: a pull that lists the remote generations leaves every local generation
\* linked to a remote one equal to it, children included, and counts each of
\* them as updated.
C17_PullMirrorsLinked ==
  [][\A list_ok \in BOOLEAN, evos_ok \in BOOLEAN :
       (last'.op = "pull" /\ last'.raised = "" /\ Pull(list_ok, evos_ok))
         => /\ \A k \in DOMAIN remote.gens :
                 Linked(remote.gens[k]) => MirrorsRemote(remote.gens[k])
            /\ last'.updated = Cardinality({k \in DOMAIN remote.gens :
                                              Linked(remote.gens[k])})]_vars

\* C18: a pull leaves alone every local generation that shares its version
\* with a remote generation linked to no local row: one conflict entry names
\* the version, no local row is linked to or created for the remote
\* generation, and the local generation, its changes and its evolutions stay
\* as they were.
C18_ConflictLeavesLocal ==
  [][\A list_ok \in BOOLEAN, evos_ok \in BOOLEAN :
       (last'.op = "pull" /\ last'.raised = "" /\ Pull(list_ok, evos_ok))
         => /\ last'.new + last'.updated + Len(last'.conflicts) = Len(remote.gens)
            /\ \A k \in DOMAIN remote.gens :
                 VersionConflict(remote.gens[k])
                   => LET cloud_gen == remote.gens[k]
                          rows == GenerationsByVersion(cloud_gen.version)
                      IN  /\ Cardinality({i \in DOMAIN last'.conflicts :
                                last'.conflicts[i] = cloud_gen.version}) = 1
                          /\ \A i \in DOMAIN generations' :
                               generations'[i].remote_id # cloud_gen.id
                          /\ \A i \in DOMAIN rows :
                               LET gid == rows[i].generation_id
                               IN  /\ SelectSeq(generations',
                                        LAMBDA g : g.generation_id = gid) = <<rows[i]>>
                                   /\ SelectSeq(changes',
                                        LAMBDA c : c.generation_id = gid) = ChangesOf(gid)
                                   /\ SelectSeq(evolutions',
                                        LAMBDA e : e.generation_id = gid)
                                        = EvolutionsOf(gid)]_vars

\* A pull has just reported a conflict for a local generation that has an
\* evolution and no remote_id.
C18_Witness ==
  /\ last.op = "pull"
  /\ Len(last.conflicts) = 1
  /\ \E i \in DOMAIN generations :
       /\ generations[i].version = last.conflicts[1]
       /\ generations[i].remote_id = 0
       /\ Len(EvolutionsOf(generations[i].generation_id)) > 0
       /\ \E k \in DOMAIN remote.gens : remote.gens[k].version = generations[i].version

\* The result of a pull run on store s against the remote state.
PullOf(s, evos_ok) ==
  PullLoop(remote.gens, s, remote, [new |-> 0, updated |-> 0, conflicts |-> <<>>], evos_ok)

\* C19: from any reachable state, a pull followed at once by a second pull,
\* with the remote state unchanged, reports new = 0 and updated = 0 for the
\* second.
C19_SecondPullReportsNothing ==
  \A e1 \in BOOLEAN, e2 \in BOOLEAN :
    LET first == PullOf(Store(generations, changes, evolutions), e1)
        second == PullOf(first.store, e2)
    IN  second.result.new = 0 /\ second.result.updated = 0

(***************************************************************************)
(* push                                                                    *)
(***************************************************************************)
\* The remote records made for a local generation.
RemoteRecordsOf(r, gid) == SelectSeq(r.gens, LAMBDA g : g.generation_id = gid)

\* The rows a push takes up.
PushCandidate(has_version, version, force, i) ==
  IF has_version
  THEN /\ Len(GenerationsByVersion(version)) > 0
       /\ generations[i].generation_id = GenerationsByVersion(version)[1].generation_id
  ELSE force \/ generations[i].sync_status # "synced"

\* C20: a push whose create call answers, of a local generation with no
\* remote_id and a version the remote side does not hold, adds exactly one
\* remote record for it and stores the id of that record as remote_id with
\* sync_status synced; once a generation has a remote_id no step changes it or
\* adds a remote record for the generation, and at no time does the remote
\* side hold two records of one generation.
C20_PushCreatesOnce ==
  [][/\ \A i \in DOMAIN generations :
          LET g == generations[i]
              records == RemoteRecordsOf(remote', g.generation_id)
          IN  /\ (g.remote_id = 0 /\ Len(RemoteGensByVersion(remote, g.version)) = 0)
                   => \A has_version \in BOOLEAN, force \in BOOLEAN, net \in NetOutcomes :
                        ( /\ last'.op = "push"
                          /\ net.create
                          /\ PushCandidate(has_version, SyncVersion, force, i)
                          /\ Push(has_version, SyncVersion, force, net) )
                          => /\ Len(records) = 1
                             /\ Len(RemoteGensById(remote, records[1].id)) = 0
                             /\ records[1].version = g.version
                             /\ generations'[i].remote_id = records[1].id
                             /\ generations'[i].sync_status = "synced"
                             /\ last'.created >= 1
              /\ g.remote_id # 0
                   => /\ generations'[i].remote_id = g.remote_id
                      /\ Len(records) = Len(RemoteRecordsOf(remote, g.generation_id))
     /\ \A k1 \in DOMAIN remote'.gens, k2 \in DOMAIN remote'.gens :
          remote'.gens[k1].generation_id = remote'.gens[k2].generation_id => k1 = k2]_vars

\* A generation created by a push has been pushed again, and the remote side
\* holds one record of it, updated by the later push.
C20_Witness ==
  /\ last.op = "push"
  /\ last.updated = 1
  /\ last.created = 0
  /\ \E i \in DOMAIN generations :
       /\ generations[i].generation_id = 1
       /\ generations[i].remote_id # 0
       /\ generations[i].sync_status = "synced"
       /\ generations[i].status = "promoted"
       /\ LET records == RemoteRecordsOf(remote, 1)
          IN  /\ Len(records) = 1
              /\ records[1].id = generations[i].remote_id
              /\ records[1].status = "promoted"

\* The remote records that carry a version.
RemoteHolding(r, version) == SelectSeq(r.gens, LAMBDA g : g.version = version)

ErrorsFor(result, version) ==
  SelectSeq(result.errors, LAMBDA e : e.version = version)

NetUp == [probe |-> TRUE, create |-> TRUE, update |-> TRUE]

\* Local row i and remote record k were created independently with the same
\* version: the row is linked to nothing and the record was made for a
\* generation of another store.
Independent(i, k) ==
  /\ generations[i].remote_id = 0
  /\ remote.gens[k].version = generations[i].version
  /\ remote.gens[k].generation_id # generations[i].generation_id

\* C23: with a local generation and a remote generation of the same version
\* created independently, a pull and a push of this store (the remote side
\* answering) each report the version as in conflict and leave the local
\* generation with its changes and the remote generation as they were.
C23_ConflictNeverOverwrites ==
  [][\A i \in DOMAIN generations, k \in DOMAIN remote.gens :
       Independent(i, k)
         => LET version == generations[i].version
                gid == generations[i].generation_id
                kept == /\ generations'[i] = generations[i]
                        /\ SelectSeq(changes', LAMBDA c : c.generation_id = gid)
                             = ChangesOf(gid)
                        /\ remote'.gens[k] = remote.gens[k]
            IN  /\ (last'.op = "pull" /\ Pull(TRUE, TRUE))
                     => kept /\ version \in Range(last'.conflicts)
                /\ ( /\ last'.op = "push"
                     /\ PushCandidate(TRUE, SyncVersion, FALSE, i)
                     /\ Push(TRUE, SyncVersion, FALSE, NetUp) )
                     => kept /\ Len(ErrorsFor(last', version)) > 0]_vars

(***************************************************************************)
(* Errors of push, pull and push_evolutions                                *)
(***************************************************************************)
\* The rows a push with the given arguments takes up.
Candidates(has_version, version, force) ==
  {i \in DOMAIN generations : PushCandidate(has_version, version, force, i)}

\* C24: a push that takes up a batch of generations handles every one of
\* them, whatever fails for the others: each candidate ends either synced
\* with a remote_id or named by an error entry, and created + updated + the
\* number of error entries is the number of candidates.
C24_BatchPushCountsAll ==
  [][\A force \in BOOLEAN, net \in BatchNets :
       ( /\ last'.op = "push"
         /\ Candidates(FALSE, SyncVersion, force) # {}
         /\ Push(FALSE, SyncVersion, force, net) )
         => /\ last'.created + last'.updated + Len(last'.errors)
                 = Cardinality(Candidates(FALSE, SyncVersion, force))
            /\ \A i \in Candidates(FALSE, SyncVersion, force) :
                 \/ Len(ErrorsFor(last', generations[i].version)) > 0
                 \/ /\ generations'[i].sync_status = "synced"
                    /\ generations'[i].remote_id # 0]_vars

\* A push of two generations has reported an error for the first and has
\* sent the second.
C24_Witness ==
  /\ last.op = "push"
  /\ Len(last.errors) = 1
  /\ last.created + last.updated = 1
  /\ Len(generations) = 2
  /\ last.errors[1].version = generations[1].version
  /\ generations[1].sync_status # "synced"
  /\ generations[2].sync_status = "synced"
  /\ generations[2].version # generations[1].version

\* C25: pull, push and push_evolutions never raise: whenever one of them has
\* returned, no exception has reached the caller.
C25_SyncNeverRaises ==
  last.op \in {"pull", "push", "push_evolutions"} => last.raised = ""

\* C26: push_evolutions, the remote side answering, of a generation whose
\* local evolution has no remote_id while the remote side already holds a
\* record with its evolution_id, stores the id of that record as the
\* evolution's remote_id with sync_status synced, counts it as updated and
\* reports no error.
C26_DuplicateEvolutionLinked ==
  [][\A i \in DOMAIN evolutions, k \in DOMAIN remote.evos :
       ( /\ evolutions[i].remote_id = 0
         /\ remote.evos[k].evolution_id = evolutions[i].evolution_id
         /\ last'.op = "push_evolutions"
         /\ GenerationsById(evolutions[i].generation_id)[1].version = SyncVersion
         /\ PushEvolutions(SyncVersion, NetUp) )
         => /\ last'.raised = ""
            /\ last'.errors = <<>>
            /\ last'.updated >= 1
            /\ evolutions'[i].remote_id = remote.evos[k].id
            /\ evolutions'[i].sync_status = "synced"]_vars

\* C27: an attached CloudSyncHandler syncs exactly as its mode dictates: in
\* local mode on no event, in cloud mode on every create, update, promoted,
\* completed and failed event of a generation or evolution, in hybrid mode only
\* on generation.promoted, evolution.completed and evolution.failed. The
\* handler owns a CloudSync and the payload names a stored row.
ModeDictates(execution_mode, event_name) ==
  IF execution_mode = "cloud" THEN TRUE
  ELSE IF execution_mode = "hybrid"
  THEN event_name \in {"generation.promoted", "evolution.completed", "evolution.failed"}
  ELSE FALSE

C27_HandlerSyncsAsModeDictates ==
  [][\A event_name \in EventNames, net \in HandlerNets :
       \A id \in {generations[i].generation_id : i \in DOMAIN generations}
                 \cup {evolutions[i].evolution_id : i \in DOMAIN evolutions} :
         (/\ handler.subscribed
          /\ handler.sync
          /\ emit(event_name, id, net))
         => (last'.op \in {"push", "push_evolutions"}
               <=> ModeDictates(handler.execution_mode, event_name))]_vars

\* Policy p is enabled, applies to the change type and is not met: a required
\* step is not among the pipeline steps, or the change has fewer evolutions in
\* the store than the configured minimum.
Violates(p, change_type, change_id, generation_id, pipeline_steps) ==
  /\ p.enabled
  /\ \/ p.config.change_types = <<>>
     \/ \E i \in DOMAIN p.config.change_types : p.config.change_types[i] = change_type
  /\ \/ /\ p.type = "change_type"
        /\ \E i \in DOMAIN p.config.required_steps :
             \/ pipeline_steps.none
             \/ \A k \in DOMAIN pipeline_steps.list :
                  pipeline_steps.list[k] # p.config.required_steps[i]
     \/ /\ p.type = "evolution_count"
        /\ Cardinality({i \in DOMAIN evolutions :
                          /\ evolutions[i].generation_id = generation_id
                          /\ evolutions[i].change_id = change_id})
             < p.config.min_evolutions

\* C28: validate_all evaluates every policy of the set and returns exactly one
\* violation for each enabled, applicable policy that is violated, in policy
\* order; a violation of one policy does not keep later policies from being
\* evaluated.
C28_ValidateAllCollects ==
  last.op = "validate_all" =>
    LET a == last.args
        violated == SelectSeq(a.policies,
                              LAMBDA p : Violates(p, a.change_type, a.change_id,
                                                  a.generation_id, a.pipeline_steps))
    IN  [i \in DOMAIN last.violations |-> last.violations[i].policy_name]
          = [i \in DOMAIN violated |-> violated[i].name]

\* Two policies of one set are violated and both violations are returned.
C28_Witness ==
  /\ last.op = "validate_all"
  /\ Len(last.args.policies) >= 2
  /\ Len(last.violations) >= 2
  /\ last.violations[1].policy_name # last.violations[2].policy_name

\* C29: on the evolution-start path the first policy violation for the change
\* aborts the start: no evolution row is inserted, no tag number is computed
\* and no tag cut, no evolution event is emitted; the command ends with exit
\* code 2 carrying the violation of the first violated policy.
C29_ViolationAbortsStart ==
  [][(last'.op = "evolution_start" \/ st' # st) => \A c \in ChangeIds, ps \in PolicySets :
       (/\ Len(GenerationsByVersion(SyncVersion)) > 0
        /\ \E i \in DOMAIN changes :
             /\ changes[i].generation_id = GenerationsByVersion(SyncVersion)[1].generation_id
             /\ changes[i].change_id = c
             /\ \E k \in DOMAIN ps :
                  Violates(ps[k], changes[i].type, c, changes[i].generation_id, NoSteps)
        /\ CmdEvolutionStart("c1", SyncVersion, c, ps))
       => /\ evolutions' = evolutions
          /\ nextEvo' = nextEvo
          /\ st' = st
          /\ last'.exit_code = 2
          /\ last'.tag = NoTag
          /\ ~last'.tag_attempted
          /\ last'.events = <<>>
          /\ Len(last'.violations) = 1
          /\ \E k \in DOMAIN ps :
               /\ last'.violations[1].policy_name = ps[k].name
               /\ \A m \in 1..(k - 1) :
                    ~Violates(ps[m], last'.args.change_type, c,
                              last'.args.generation_id, NoSteps)]_vars

\* A start was refused for a policy violation while the store holds the
\* generation and the change.
C29_Witness ==
  /\ last.op = "evolution_start"
  /\ last.exit_code = 2
  /\ Len(last.violations) = 1
  /\ Len(last.args.policies) >= 2
  /\ last.violations[1].policy_name = last.args.policies[2].name
  /\ \E i \in DOMAIN changes : changes[i].change_id = last.args.change_id

HotfixReady(gid, c) ==
  /\ \E i \in DOMAIN evolutions :
       /\ evolutions[i].generation_id = gid /\ evolutions[i].change_id = c
       /\ evolutions[i].status = "pass"
  /\ \A i \in DOMAIN evolutions :
       (evolutions[i].generation_id = gid /\ evolutions[i].change_id = c)
         => evolutions[i].status \notin {"pending", "running"}

ChangeIdsOf(gid) ==
  {changes[k].change_id : k \in {j \in DOMAIN changes : changes[j].generation_id = gid}}

\* C31 (as the code has it): HotfixGate passes exactly when the Generation has
\* at least one Change and every Change has a pass Evolution and no pending or
\* running Evolution; a Generation without changes does not pass.
C31_HotfixGate ==
  \A gid \in StoredGenerationIds :
    HotfixGate(from_db(gid), evolutions).passed
      <=> (ChangeIdsOf(gid) # {} /\ \A c \in ChangeIdsOf(gid) : HotfixReady(gid, c))

\* C31 as stated: the gate passes if and only if every Change has a pass
\* Evolution and no pending or running one.
C31_AsStated ==
  \A gid \in StoredGenerationIds :
    HotfixGate(from_db(gid), evolutions).passed
      <=> (\A c \in ChangeIdsOf(gid) : HotfixReady(gid, c))

\* A Generation whose change has passed once and is being proved again: the
\* gate is failed by the running Evolution alone.
C31_Witness ==
  \E gid \in StoredGenerationIds :
    /\ ChangeIdsOf(gid) # {}
    /\ \A c \in ChangeIdsOf(gid) :
         \E i \in DOMAIN evolutions :
           /\ evolutions[i].generation_id = gid /\ evolutions[i].change_id = c
           /\ evolutions[i].status = "pass"
    /\ \E i \in DOMAIN evolutions :
         evolutions[i].generation_id = gid /\ evolutions[i].status = "running"
    /\ ~HotfixGate(from_db(gid), evolutions).passed

\* The number of stored evolutions of change c of generation gid.
StoredEvolutionCount(gid, c) ==
  Cardinality({i \in DOMAIN evolutions :
                 evolutions[i].generation_id = gid /\ evolutions[i].change_id = c})

\* C32 (as the code has it): MinEvolutionsGate(n) passes exactly when the
\* Generation has at least one Change and every Change has at least n stored
\* Evolutions of any status; a Generation without changes does not pass.
C32_MinEvolutionsGate ==
  \A gid \in StoredGenerationIds, n \in MinEvolutionsInputs :
    MinEvolutionsGate(n, from_db(gid), evolutions).passed
      <=> (/\ ChangeIdsOf(gid) # {}
           /\ \A c \in ChangeIdsOf(gid) : StoredEvolutionCount(gid, c) >= n)

\* C32 as stated: the gate passes if and only if every Change has at least n
\* stored Evolutions.
C32_AsStated ==
  \A gid \in StoredGenerationIds, n \in MinEvolutionsInputs :
    MinEvolutionsGate(n, from_db(gid), evolutions).passed
      <=> (\A c \in ChangeIdsOf(gid) : StoredEvolutionCount(gid, c) >= n)

\* A Generation whose change has two Evolutions, neither of them passed: the
\* gate built with 2 passes.
C32_Witness ==
  \E gid \in StoredGenerationIds :
    /\ ChangeIdsOf(gid) # {}
    /\ \A i \in DOMAIN evolutions :
         evolutions[i].generation_id = gid => evolutions[i].status # "pass"
    /\ MinEvolutionsGate(2, from_db(gid), evolutions).passed

\* The required steps of policy p that are not among the pipeline steps, in
\* the order of the policy's list; all of them when no steps are supplied.
MissingSteps(p, pipeline_steps) ==
  SelectSeq(p.config.required_steps,
            LAMBDA x : \/ pipeline_steps.none
                       \/ \A k \in DOMAIN pipeline_steps.list : pipeline_steps.list[k] # x)

\* C33: validate of a change_type policy raises a violation if and only if
\* the policy is enabled, its change_types list is empty or holds the change's
\* type, and a required step is missing from the pipeline steps (all are
\* missing when none are supplied); the violation names the missing steps.
C33_ChangeTypeViolation ==
  last.op = "validate_all" =>
    \A i \in DOMAIN last.args.policies :
      LET p == last.args.policies[i]
          a == last.args
          raised == {k \in DOMAIN last.violations : last.violations[k].policy_name = p.name}
      IN  p.type = "change_type" =>
            /\ (raised # {}) <=>
                 (/\ p.enabled
                  /\ \/ p.config.change_types = <<>>
                     \/ \E k \in DOMAIN p.config.change_types :
                          p.config.change_types[k] = a.change_type
                  /\ MissingSteps(p, a.pipeline_steps) # <<>>)
            /\ \A k \in raised :
                 last.violations[k].missing_steps = MissingSteps(p, a.pipeline_steps)

\* A violation that names one of two required steps: the other was supplied.
C33_Witness ==
  /\ last.op = "validate_all"
  /\ Len(last.args.policies) = 1
  /\ Len(last.violations) = 1
  /\ Len(last.args.policies[1].config.required_steps) = 2
  /\ last.violations[1].missing_steps = <<"integration_test">>

\* C34: emit invokes every handler subscribed to the event name, in
\* subscription order; an exception raised by a handler is swallowed, does not
\* keep the remaining handlers from being invoked and does not reach the
\* emitter.
C34_EmitInvokesAll ==
  [][(last' # last /\ bus' = bus /\ last'.op = "emit") =>
       /\ last'.called = bus[last'.events[1]]
       /\ last'.raised = ""]_vars

\* An emission to two handlers of which the first raises: the second was
\* invoked after it.
C34_Witness ==
  /\ last.op = "emit"
  /\ Len(bus[last.events[1]]) = 2
  /\ bus[last.events[1]][1] = "raising_handler"
  /\ last.called = <<"raising_handler", "returning_handler">>

\* C35: after save_to_db of a new Generation every Change of its change list
\* is stored under its generation_id, also when another stored Generation
\* already has a Change with the same change_id.
C35_ChangesStoredPerGeneration ==
  [][\A v \in VersionInputs, ids \in ChangeLists, u \in Users :
       (Len(generations') > Len(generations) /\ CreateGeneration(v, ids, u)) =>
         \A i \in 1..Len(ids) :
           \E j \in 1..Len(changes') :
             /\ changes'[j].generation_id = nextGen
             /\ changes'[j].change_id = ids[i]]_vars

\* C36: in every reachable state a stored Generation or Evolution whose
\* sync_status is synced has a remote_id.
C36_SyncedHasRemoteId ==
  /\ \A i \in 1..Len(generations) :
       generations[i].sync_status = "synced" => generations[i].remote_id # 0
  /\ \A i \in 1..Len(evolutions) :
       evolutions[i].sync_status = "synced" => evolutions[i].remote_id # 0

\* A promoted Generation stored as synced with its remote_id, next to an
\* Evolution that pull stored as synced.
C36_Witness ==
  /\ \E i \in 1..Len(generations) :
       /\ generations[i].sync_status = "synced"
       /\ generations[i].remote_id # 0
       /\ generations[i].status = "promoted"
  /\ \E i \in 1..Len(evolutions) :
       /\ evolutions[i].sync_status = "synced"
       /\ evolutions[i].remote_id # 0

\* C37: when push returns, every Generation for which it recorded an error
\* has a stored sync_status other than synced.
C37_ErrorMeansNotSynced ==
  [][(last'.op = "push" /\ Len(last'.errors) > 0 /\
      \E hv \in BOOLEAN, f \in BOOLEAN, net \in NetOutcomes :
        Push(hv, SyncVersion, f, net)) =>
       \A k \in 1..Len(last'.errors) :
         \A i \in 1..Len(generations') :
           generations'[i].version = last'.errors[k].version =>
             generations'[i].sync_status # "synced"]_vars

\* C38: a Generation stored as promoted is not promoted again: no promotion
\* attempt on it gets past the check, and its promoted_at and promoted_by
\* stay as they are.
C38_NoSecondPromotion ==
  [][\A i \in 1..Len(generations) :
       generations[i].status = "promoted" =>
         /\ ~(pm.pc = "idle" /\ pm'.pc = "save"
              /\ pm'.obj.generation_id = generations[i].generation_id)
         /\ generations'[i].promoted_at = generations[i].promoted_at
         /\ generations'[i].promoted_by = generations[i].promoted_by]_vars

\* C39: a push without version and without force, whose remote calls succeed,
\* leaves the remote record of every Generation that is stored as promoted
\* and synced in the promoted state.
C39_PromotionReachesRemote ==
  [][(last'.op = "push" /\
      \E net \in NetOutcomes : net.update /\ Push(FALSE, SyncVersion, FALSE, net)) =>
       \A i \in 1..Len(generations) :
         (/\ generations[i].status = "promoted"
          /\ generations[i].sync_status = "synced"
          /\ generations[i].remote_id # 0) =>
           \E k \in 1..Len(remote'.gens) :
             /\ remote'.gens[k].id = generations[i].remote_id
             /\ remote'.gens[k].status = "promoted"]_vars

\* C40: the version _calculate_hotfix_version returns, and the one
\* create_hotfix_generation stores, is not the version of a Generation that
\* is already stored.
C40_HotfixVersionIsNew ==
  [][/\ (last' # last /\ last'.op = "calculate_hotfix_version" /\ last'.raised = "") =>
          \A i \in 1..Len(generations) : generations[i].version # last'.tag
     /\ (last'.op = "create_hotfix_generation" /\ Len(generations') > Len(generations)) =>
          \A i \in 1..Len(generations) :
            generations[i].version # generations'[Len(generations')].version]_vars
====
